---- MODULE Spec2Model ----
(***************************************************************************)
(* Entitlement / upgrade-eligibility engine of subscription_lib.           *)
(*                                                                         *)
(* utils/level-calculator.ts : calculatePackageLevels,                     *)
(*                             findUpgradeablePackages                     *)
(* types/period.ts           : PERIOD_RANKS, ALL_PERIODS                   *)
(*                                                                         *)
(* The functions are pure; the state of the model is the argument list of  *)
(* a call and what the call returned.  A package id identifies a package,  *)
(* so the lists drawn here carry pairwise distinct package ids (the only   *)
(* caller, useSubscribable, adds the free tier only when its id is not     *)
(* already in the list).  Product ids may repeat.                          *)
(***************************************************************************)
EXTENDS Integers, Sequences, FiniteSets, TLC

\* ---------------------------------------------------------------- bounds
MaxLen   == 3      \* longest package list drawn
MaxPrice == 2      \* the level calculator is given prices from 0..MaxPrice
MaxCalls == 2      \* calls of calculatePackageLevels made on one list
MaxValue == 95     \* every <n> of 0..MaxValue is tried in P<n><unit>
MaxDigits == 11    \* longest run of digits tried in P<digits><unit>
MaxStrLen == 3     \* longest free-form duration string
MaxTasks == 2      \* calls of the service's async methods in flight at once
MaxInits == 2      \* initializeSubscription calls made
MaxListeners == 2  \* listener functions that subscribe

\* ------------------------------------------------------- JavaScript values
NULL      == "<null>"
UNDEFINED == "<undefined>"

\* `!v` for a value of type string | null | undefined
Falsy(v) == v \in {NULL, UNDEFINED, ""}

\* ------------------------------------------------------------ period types
ALL_PERIODS == <<"weekly", "monthly", "quarterly", "yearly", "lifetime">>

SubscriptionPeriod == {ALL_PERIODS[i] : i \in 1..Len(ALL_PERIODS)}

\* a table that ranks lifetime below yearly
PERIOD_RANKS_LifetimeFourth ==
  [weekly |-> 1, monthly |-> 2, quarterly |-> 3, yearly |-> 5, lifetime |-> 4]

PERIOD_RANKS ==
  [weekly |-> 1, monthly |-> 2, quarterly |-> 3, yearly |-> 4, lifetime |-> 5]

\* the table declared inside the loop of findUpgradeablePackages
periodRanks ==
  [weekly |-> 1, monthly |-> 2, quarterly |-> 3, yearly |-> 4, lifetime |-> 5]

\* ---------------------------------------------------------------- packages
\* `product: undefined` of a SubscriptionPackage (the free tier)
NoProduct == [productId |-> UNDEFINED, period |-> UNDEFINED, price |-> 0]

\* `pkg.product` is truthy
HasProduct(pkg) == pkg.product # NoProduct

PackageIdOf(i) == <<"p1", "p2", "p3", "p4", "p5">>[i]

\* Two product ids, handed out alternately, so that packages share a product
\* id (positions 1 and 3) and differ in it (positions 1 and 2).
ProductIds == {"x", "y"}

ProductIdOf(i) == IF i % 2 = 1 THEN "x" ELSE "y"

\* what is drawn for a position of a list: no product, or a period and a price
Offers(prices) ==
  {NoProduct} \cup
  [productId : {UNDEFINED}, period : SubscriptionPeriod, price : prices]

\* The upgrade resolver reads prices only through the levels; a cheap and a
\* dear price put a package below, level with or above another one.
UpgradePrices == {0, 1}

\* the package list with the given offers; the package at position i is called
\* PackageIdOf(i) and its product, if any, ProductIdOf(i)
PackageList(offers) ==
  [i \in 1..Len(offers) |->
     [packageId |-> PackageIdOf(i),
      product   |-> IF offers[i] = NoProduct THEN NoProduct
                    ELSE [offers[i] EXCEPT !.productId = ProductIdOf(i)]]]

\* ------------------------------------------------------------------- state
VARIABLES
  packages,   \* the `packages` argument, as the caller holds it
  current,    \* the `current` argument of the last findUpgradeablePackages call
  called,     \* the function called last, "none" before any call
  calls,      \* how many calls have been made on this list
  levels,     \* Map returned by the last calculatePackageLevels call
  upgrades,   \* array returned by the last findUpgradeablePackages call
  arg,        \* the other argument(s) of the last call of any other function
  result,     \* what the last call of any other function returned
  offersCache,            \* SubscriptionService.offersCache, in Map order
  currentSubscription,    \* SubscriptionService.currentSubscription
  isLoadingOfferings,     \* SubscriptionService.isLoadingOfferings
  isLoadingCustomerInfo,  \* SubscriptionService.isLoadingCustomerInfo
  tasks,      \* the calls of the service's async methods, each where it awaits
  requests,   \* the adapter's requests that have not settled, per method
  fetched,    \* what adapter.getOfferings last resolved with
  customerInfo,  \* what adapter.getCustomerInfo last resolved with
  instance,      \* singleton `instance`: null, or which service it is
  currentAdapter,  \* singleton `currentAdapter`
  currentUserId,   \* singleton `currentUserId`
  userIdChangeListeners,         \* singleton array, in registration order
  subscriptionRefreshListeners,  \* singleton array, in registration order
  created,    \* how many services initializeSubscription has constructed
  notified,   \* the last notification round: who was invoked, seeing what
  purchasesInstance,  \* web adapter module: `purchasesInstance`
  rcCurrentUserId,    \* web adapter module: its own `currentUserId`
  pendingUserSetup    \* web adapter module: `pendingUserSetup`

\* the variables of the pure functions and those of the service
functions == <<packages, current, called, calls, levels, upgrades, arg, result>>
service   == <<offersCache, currentSubscription, isLoadingOfferings,
               isLoadingCustomerInfo, tasks, requests, fetched, customerInfo>>
library   == <<instance, currentAdapter, currentUserId, userIdChangeListeners,
               subscriptionRefreshListeners, created, notified>>
revenueCat == <<purchasesInstance, rcCurrentUserId, pendingUserSetup>>

vars == <<packages, current, called, calls, levels, upgrades, arg, result,
          offersCache, currentSubscription, isLoadingOfferings,
          isLoadingCustomerInfo, tasks, requests, fetched, customerInfo,
          instance, currentAdapter, currentUserId, userIdChangeListeners,
          subscriptionRefreshListeners, created, notified,
          purchasesInstance, rcCurrentUserId, pendingUserSetup>>

\* ------------------------------------------------- calculatePackageLevels
\* A Map<string, number> is a function from its keys; Map.set overwrites.
MapSet(m, k, v) == [x \in DOMAIN m \cup {k} |-> IF x = k THEN v ELSE m[x]]

EmptyMap == [x \in {} |-> 0]

\* `a.product?.price ?? 0`
PriceOf(pkg) == IF HasProduct(pkg) THEN pkg.product.price ELSE 0

\* a first loop that records nothing for a package without a product
FreeLevels_Skipped(pkgs, m) == m

\* first loop: free-tier packages are set to level 0
RECURSIVE FreeLevels(_, _)
FreeLevels(pkgs, m) ==
  IF pkgs = <<>> THEN m
  ELSE FreeLevels(Tail(pkgs),
                  IF HasProduct(Head(pkgs)) THEN m
                  ELSE MapSet(m, Head(pkgs).packageId, 0))

\* first loop: byPeriod, the keys in the order of their first insertion
RECURSIVE PeriodKeys(_, _)
PeriodKeys(pkgs, keys) ==
  IF pkgs = <<>> THEN keys
  ELSE LET pkg == Head(pkgs) IN
       PeriodKeys(Tail(pkgs),
         IF HasProduct(pkg) /\ \A i \in 1..Len(keys) : keys[i] # pkg.product.period
         THEN Append(keys, pkg.product.period) ELSE keys)

\* a grouping that puts every paid package into every group
RECURSIVE PositionsOf_AllPaid(_, _, _)
PositionsOf_AllPaid(pkgs, period, i) ==
  IF i > Len(pkgs) THEN <<>>
  ELSE (IF pkgs[i].product # NoProduct THEN <<i>> ELSE <<>>)
       \o PositionsOf_AllPaid(pkgs, period, i + 1)

\* first loop: byPeriod.get(period), the packages of a period in input order,
\* as positions of the input list
RECURSIVE PositionsOf(_, _, _)
PositionsOf(pkgs, period, i) ==
  IF i > Len(pkgs) THEN <<>>
  ELSE (IF HasProduct(pkgs[i]) /\ pkgs[i].product.period = period
        THEN <<i>> ELSE <<>>) \o PositionsOf(pkgs, period, i + 1)

\* a sort whose comparator is priceB - priceA
SortByPrice_Descending(pkgs, group, tie) ==
  SortSeq(group,
          LAMBDA i, j :
            \/ pkgs[i].product.price > pkgs[j].product.price
            \/ pkgs[i].product.price = pkgs[j].product.price /\ tie[i] < tie[j])

\* `[...periodPackages].sort((a, b) => priceA - priceB)`: ascending by price.
\* Array.prototype.sort is stable since ES2019 and implementation-defined on
\* ties before.
\* `tie` maps a position to its place among equal prices.
SortByPrice(pkgs, group, tie) ==
  SortSeq(group,
          LAMBDA i, j :
            \/ PriceOf(pkgs[i]) < PriceOf(pkgs[j])
            \/ PriceOf(pkgs[i]) = PriceOf(pkgs[j]) /\ tie[i] < tie[j])

NoLastPrice == -1   \* `lastPrice = null`

\* a walk that raises the level at every package, equal prices included
RECURSIVE AssignLevels_Positional(_, _, _, _, _)
AssignLevels_Positional(pkgs, sorted, currentLevel, lastPrice, m) ==
  IF sorted = <<>> THEN m
  ELSE AssignLevels_Positional(pkgs, Tail(sorted), currentLevel + 1, lastPrice,
         MapSet(m, pkgs[Head(sorted)].packageId, currentLevel + 1))

\* a walk whose lastPrice starts at 0 instead of null
RECURSIVE AssignLevels_FromZero(_, _, _, _, _)
AssignLevels_FromZero(pkgs, sorted, currentLevel, lastPrice, m) ==
  IF sorted = <<>> THEN m
  ELSE LET price == pkgs[Head(sorted)].product.price
           last  == IF lastPrice = NoLastPrice THEN 0 ELSE lastPrice
           lvl   == IF price > last THEN currentLevel + 1 ELSE currentLevel
       IN  AssignLevels_FromZero(pkgs, Tail(sorted), lvl,
             IF price > last THEN price ELSE last,
             MapSet(m, pkgs[Head(sorted)].packageId, lvl))

\* second loop, inner walk over one sorted group:
\*   if (lastPrice === null || price > lastPrice) { currentLevel++; lastPrice = price }
\*   levels.set(pkg.packageId, currentLevel)
RECURSIVE AssignLevels(_, _, _, _, _)
AssignLevels(pkgs, sorted, currentLevel, lastPrice, m) ==
  IF sorted = <<>> THEN m
  ELSE LET pkg   == pkgs[Head(sorted)]
           price == PriceOf(pkg)
           bump  == lastPrice = NoLastPrice \/ price > lastPrice
           lvl   == IF bump THEN currentLevel + 1 ELSE currentLevel
           last  == IF bump THEN price ELSE lastPrice
       IN  AssignLevels(pkgs, Tail(sorted), lvl, last,
                        MapSet(m, pkg.packageId, lvl))

\* second loop, over the period groups in Map order
RECURSIVE GroupLevels(_, _, _, _)
GroupLevels(pkgs, keys, tie, m) ==
  IF keys = <<>> THEN m
  ELSE LET group  == PositionsOf(pkgs, Head(keys), 1)
           sorted == SortByPrice(pkgs, group, tie)
       IN  GroupLevels(pkgs, Tail(keys), tie,
                       AssignLevels(pkgs, sorted, 0, NoLastPrice, m))

calculatePackageLevels(pkgs, tie) ==
  GroupLevels(pkgs, PeriodKeys(pkgs, <<>>), tie, FreeLevels(pkgs, EmptyMap))

\* the orders the sort may leave equal prices in: input order (the stable
\* sort ES2019 requires) and reverse input order (a sort that is not stable)
TieOrders(n) == {[i \in 1..n |-> i], [i \in 1..n |-> n + 1 - i]}

StableOrder(n) == [i \in 1..n |-> i]

\* ------------------------------------------------ findUpgradeablePackages
\* packages.find(p => p.packageId === id), searching from position i: the
\* first position that matches, 0 for undefined
RECURSIVE FindByPackageId(_, _, _)
FindByPackageId(pkgs, id, i) ==
  IF i > Len(pkgs) THEN 0
  ELSE IF pkgs[i].packageId = id THEN i
  ELSE FindByPackageId(pkgs, id, i + 1)

\* packages.find(p => p.product?.productId === id), searching from position i
RECURSIVE FindByProductId(_, _, _)
FindByProductId(pkgs, id, i) ==
  IF i > Len(pkgs) THEN 0
  ELSE IF HasProduct(pkgs[i]) /\ pkgs[i].product.productId = id THEN i
  ELSE FindByProductId(pkgs, id, i + 1)

\* a map that leaves the product-less packages out
PackageIds_PaidOnly(pkgs) ==
  LET paid == SelectSeq(pkgs, LAMBDA p : p.product # NoProduct)
  IN  [i \in 1..Len(paid) |-> paid[i].packageId]

\* packages.map(p => p.packageId)
PackageIds(pkgs) == [i \in 1..Len(pkgs) |-> pkgs[i].packageId]

\* normalisation of `current`
CurrentPackageId(cur) ==
  IF cur.kind \in {"string", "object"} THEN cur.packageId ELSE UNDEFINED

CurrentProductId(cur) ==
  IF cur.kind = "object" THEN cur.productId ELSE UNDEFINED

\* a lookup that consults the product id before the package id
CurrentPkg_ProductFirst(cur, pkgs) ==
  LET byProductId ==
        IF cur.kind # "object" \/ Falsy(cur.productId) THEN 0
        ELSE FindByProductId(pkgs, cur.productId, 1)
  IN  IF byProductId = 0 /\ ~Falsy(CurrentPackageId(cur))
      THEN FindByPackageId(pkgs, CurrentPackageId(cur), 1)
      ELSE byProductId

\* the position of currentPkg in `packages`, 0 when it is undefined
CurrentPkg(cur, pkgs) ==
  LET currentPackageId == CurrentPackageId(cur)
      currentProductId == CurrentProductId(cur)
      byPackageId ==
        IF Falsy(currentPackageId) THEN 0
        ELSE FindByPackageId(pkgs, currentPackageId, 1)
  IN  IF byPackageId = 0 /\ ~Falsy(currentProductId)
      THEN FindByProductId(pkgs, currentProductId, 1)
      ELSE byPackageId

\* a lookup that answers 1 for an id the map does not hold
LevelGet_DefaultOne(m, id) == IF id \in DOMAIN m THEN m[id] ELSE 1

\* `levels.get(id) ?? 0`
LevelGet(m, id) == IF id \in DOMAIN m THEN m[id] ELSE 0

\* a resolver that accepts a package when either test passes
IsUpgrade_EitherOk(pkg, matchedPackageId, currentLevel, currentPeriod, m) ==
  /\ pkg.product # NoProduct
  /\ pkg.packageId # matchedPackageId
  /\ \/ periodRanks[pkg.product.period] >= periodRanks[currentPeriod]
     \/ (IF pkg.packageId \in DOMAIN m THEN m[pkg.packageId] ELSE 0) >= currentLevel

\* body of the final loop: does the loop push pkg.packageId?
\*   if (!pkg.product) continue;
\*   if (pkg.packageId === matchedPackageId) continue;
\*   if (isPeriodOk && isLevelOk) upgrades.push(pkg.packageId)
IsUpgrade(pkg, matchedPackageId, currentLevel, currentPeriod, m) ==
  IF ~HasProduct(pkg) THEN FALSE
  ELSE IF pkg.packageId = matchedPackageId THEN FALSE
  ELSE LET pkgLevel   == LevelGet(m, pkg.packageId)
           pkgPeriod  == pkg.product.period
           isPeriodOk == periodRanks[pkgPeriod] >= periodRanks[currentPeriod]
           isLevelOk  == pkgLevel >= currentLevel
       IN  isPeriodOk /\ isLevelOk

\* the final loop over `packages`, pushing in iteration order
RECURSIVE Upgrades(_, _, _, _, _, _)
Upgrades(pkgs, i, matchedPackageId, currentLevel, currentPeriod, m) ==
  IF i > Len(pkgs) THEN <<>>
  ELSE (IF IsUpgrade(pkgs[i], matchedPackageId, currentLevel, currentPeriod, m)
        THEN <<pkgs[i].packageId>> ELSE <<>>)
       \o Upgrades(pkgs, i + 1, matchedPackageId, currentLevel, currentPeriod, m)

\* a free-tier branch that returns every package but the first
PaidPackageIds_AllButFirst(pkgs) ==
  [i \in 1..(Len(pkgs) - 1) |-> pkgs[i + 1].packageId]

\* packages.filter(p => p.product !== undefined).map(p => p.packageId)
PaidPackageIds(pkgs) == PackageIds(SelectSeq(pkgs, HasProduct))

findUpgradeablePackages(cur, pkgs, tie) ==
  IF Falsy(CurrentPackageId(cur)) /\ Falsy(CurrentProductId(cur))
  THEN PackageIds(pkgs)
  ELSE LET c == CurrentPkg(cur, pkgs) IN
       IF c = 0 THEN PackageIds(pkgs)
       ELSE IF ~HasProduct(pkgs[c])
       THEN PaidPackageIds(pkgs)
       ELSE LET m == calculatePackageLevels(pkgs, tie)
                matchedPackageId == pkgs[c].packageId
            IN  Upgrades(pkgs, 1, matchedPackageId, LevelGet(m, matchedPackageId),
                         pkgs[c].product.period, m)

\* ------------------------------------ getPackageLevel, addLevelsToPackages
\* `levels.get(packageId) ?? 0` over a freshly computed map
getPackageLevel(packageId, pkgs, tie) ==
  LevelGet(calculatePackageLevels(pkgs, tie), packageId)

\* packages.map(pkg => ({...pkg, level: levels.get(pkg.packageId) ?? 0}))
addLevelsToPackages(pkgs, tie) ==
  LET m == calculatePackageLevels(pkgs, tie) IN
  [i \in 1..Len(pkgs) |->
     [packageId |-> pkgs[i].packageId,
      product   |-> pkgs[i].product,
      level     |-> LevelGet(m, pkgs[i].packageId)]]

\* ------------------------------------------------------ parseISO8601Period
\* A JavaScript string is the sequence of its characters; the duration
\* argument is a string, null or undefined.
NullDuration      == [type |-> "null", chars |-> <<>>]
UndefinedDuration == [type |-> "undefined", chars |-> <<>>]
Str(chars)        == [type |-> "string", chars |-> chars]

\* the characters \d matches, in the order of their values
DecimalDigits == <<"0", "1", "2", "3", "4", "5", "6", "7", "8", "9">>
IsDigit(c)    == \E i \in DOMAIN DecimalDigits : DecimalDigits[i] = c
DigitValue(c) == (CHOOSE i \in DOMAIN DecimalDigits : DecimalDigits[i] = c) - 1

\* String.prototype.toUpperCase, one character at a time: ASCII letters, and
\* the two non-ASCII characters of the alphabet, of which sharp s becomes two
\* characters and long s becomes an ASCII letter
UpperCaseOf(c) ==
  CASE c = "p" -> <<"P">> [] c = "d" -> <<"D">> [] c = "w" -> <<"W">>
    [] c = "m" -> <<"M">> [] c = "y" -> <<"Y">> [] c = "t" -> <<"T">>
    [] c = "h" -> <<"H">> [] c = "g" -> <<"G">> [] c = "k" -> <<"K">>
    [] c = "sharp s" -> <<"S", "S">>
    [] c = "long s" -> <<"S">>
    [] OTHER -> <<c>>

\* String.prototype.toLowerCase, one character at a time; the Kelvin sign
\* becomes the ASCII letter k
LowerCaseOf(c) ==
  CASE c = "P" -> "p" [] c = "D" -> "d" [] c = "W" -> "w"
    [] c = "M" -> "m" [] c = "Y" -> "y" [] c = "T" -> "t"
    [] c = "H" -> "h" [] c = "G" -> "g" [] c = "K" -> "k"
    [] c = "Kelvin sign" -> "k"
    [] OTHER -> c

\* a toUpperCase that leaves every character as it is
toUpperCase_AsIs(chars) == chars

RECURSIVE toUpperCase(_)
toUpperCase(chars) ==
  IF chars = <<>> THEN <<>>
  ELSE UpperCaseOf(Head(chars)) \o toUpperCase(Tail(chars))

\* parseInt(digits, 10) of a run of decimal digits.  The code compares the
\* value only with constants up to 365, so every value from LargeValue on
\* (the doubles of long runs, Infinity included) is kept as LargeValue.
LargeValue == 1000000
RECURSIVE parseInt(_, _)
parseInt(digits, acc) ==
  IF digits = <<>> THEN acc
  ELSE LET v == acc * 10 + DigitValue(Head(digits)) IN
       parseInt(Tail(digits), IF v >= LargeValue THEN LargeValue ELSE v)

\* normalized.match(/^P(\d+)([DWMY])$/) succeeds
PatternMatches(normalized) ==
  /\ Len(normalized) >= 3
  /\ normalized[1] = "P"
  /\ normalized[Len(normalized)] \in {"D", "W", "M", "Y"}
  /\ \A i \in 2..(Len(normalized) - 1) : IsDigit(normalized[i])

\* the return statement after the switch
Fallback == "monthly"

\* a day table whose yearly row starts above 365
ClassifyDays_YearAbove365(value) ==
  IF value = 7 THEN "weekly"
  ELSE IF value >= 28 /\ value <= 31 THEN "monthly"
  ELSE IF value >= 84 /\ value <= 93 THEN "quarterly"
  ELSE IF value > 365 THEN "yearly"
  ELSE Fallback

\* case 'D'
ClassifyDays(value) ==
  IF value = 7 THEN "weekly"
  ELSE IF value >= 28 /\ value <= 31 THEN "monthly"
  ELSE IF value >= 84 /\ value <= 93 THEN "quarterly"
  ELSE IF value >= 365 THEN "yearly"
  ELSE Fallback

\* the switch on the unit; a case that breaks reaches the final return
ClassifyUnit(unit, value) ==
  CASE unit = "D" -> ClassifyDays(value)
    [] unit = "W" ->
         IF value = 1 THEN "weekly"
         ELSE IF value = 4 \/ value = 5 THEN "monthly"
         ELSE IF value = 13 THEN "quarterly"
         ELSE IF value = 52 THEN "yearly"
         ELSE Fallback
    [] unit = "M" ->
         IF value = 1 THEN "monthly"
         ELSE IF value = 3 THEN "quarterly"
         ELSE IF value = 6 THEN "quarterly"
         ELSE IF value = 12 THEN "yearly"
         ELSE Fallback
    [] unit = "Y" -> "yearly"

\* the general pattern and the final return
PatternPeriod(normalized) ==
  IF PatternMatches(normalized)
  THEN ClassifyUnit(normalized[Len(normalized)],
                    parseInt(SubSeq(normalized, 2, Len(normalized) - 1), 0))
  ELSE Fallback

\* the exact-match fast path
P1W  == <<"P", "1", "W">>
P7D  == <<"P", "7", "D">>
P1M  == <<"P", "1", "M">>
P3M  == <<"P", "3", "M">>
P1Y  == <<"P", "1", "Y">>
P12M == <<"P", "1", "2", "M">>

\* a test that lets undefined through
NotDuration_NullOnly(duration) == duration.type = "null"

\* `!duration`
NotDuration(duration) ==
  duration.type \in {"null", "undefined"} \/ duration.chars = <<>>

\* Calling toUpperCase on a value that is not a string throws a TypeError.
parseISO8601Period(duration) ==
  IF NotDuration(duration) THEN "lifetime"
  ELSE IF duration.type # "string" THEN "TypeError"
  ELSE LET normalized == toUpperCase(duration.chars) IN
       IF normalized = P1W \/ normalized = P7D THEN "weekly"
       ELSE IF normalized = P1M THEN "monthly"
       ELSE IF normalized = P3M THEN "quarterly"
       ELSE IF normalized = P1Y \/ normalized = P12M THEN "yearly"
       ELSE PatternPeriod(normalized)

\* --------------------- getPeriodRank, comparePeriods, isPeriodGreaterOrEqual
getPeriodRank(period) == PERIOD_RANKS[period]

comparePeriods(a, b) == getPeriodRank(a) - getPeriodRank(b)

\* a comparison that leaves equal periods out
isPeriodGreaterOrEqual_Strict(a, b) == getPeriodRank(a) > getPeriodRank(b)

isPeriodGreaterOrEqual(a, b) == getPeriodRank(a) >= getPeriodRank(b)

\* ------------------------------------------------------ SubscriptionService
\* A Map is the sequence of its entries in insertion order.
EmptyCache == <<>>

CacheHas(cache, key) == \E i \in DOMAIN cache : cache[i].key = key

\* Map.set: the value of a key the Map holds is replaced in place, a new key
\* is appended
CacheSet(cache, key, offer) ==
  IF CacheHas(cache, key)
  THEN [i \in DOMAIN cache |->
          IF cache[i].key = key THEN [key |-> key, offer |-> offer]
          ELSE cache[i]]
  ELSE Append(cache, [key |-> key, offer |-> offer])

\* `currentSubscription = null` and `offerings.current = null`
NullSubscription == [null |-> TRUE]
NullOffering     == [null |-> TRUE]

parsePackage(pkg) ==
  [packageId |-> pkg.identifier,
   product   |-> [productId |-> pkg.product.identifier,
                  period    |-> parseISO8601Period(
                                  pkg.product.normalPeriodDuration),
                  price     |-> pkg.product.price]]

parseOffering(offerId, offering) ==
  [offerId  |-> offerId,
   packages |-> [i \in DOMAIN offering.availablePackages |->
                   parsePackage(offering.availablePackages[i])]]

\* a loop that stops after the first entry of offerings.all
RECURSIVE SetAll_FirstOnly(_, _)
SetAll_FirstOnly(cache, entries) ==
  IF entries = <<>> THEN cache
  ELSE CacheSet(cache, Head(entries).key,
                parseOffering(Head(entries).key, Head(entries).offering))

\* the loop over Object.entries(offerings.all)
RECURSIVE SetAll(_, _)
SetAll(cache, entries) ==
  IF entries = <<>> THEN cache
  ELSE SetAll(CacheSet(cache, Head(entries).key,
                       parseOffering(Head(entries).key, Head(entries).offering)),
              Tail(entries))

\* a clear() that keeps what the cache holds
Cleared_Kept(cache) == cache

\* this.offersCache.clear()
Cleared(cache) == EmptyCache

\* What loadOfferings does to the cache once adapter.getOfferings has
\* settled: nothing when it rejected; otherwise clear, set every entry of
\* offerings.all, then set 'default' from offerings.current unless held.
OffersAfterFetch(cache, response) ==
  IF ~response.ok THEN cache
  ELSE LET filled == SetAll(Cleared(cache), response.all) IN
       IF response.current # NullOffering /\ ~CacheHas(filled, "default")
       THEN CacheSet(filled, "default",
                     parseOffering("default", response.current))
       ELSE filled

\* a test that never finds a load in flight
AlreadyLoading_Never(flag) == FALSE

\* `if (this.isLoadingOfferings) return;`, `if (this.isLoadingCustomerInfo) return;`
AlreadyLoading(flag) == flag

hasLoadedOfferings(cache) == Len(cache) > 0

hasLoadedCustomerInfo(subscription) == subscription # NullSubscription

\* a scan that keeps the last offer selling the product
FirstOfferWith_Last(cache, productId) ==
  LET hits == {i \in DOMAIN cache :
                 \E j \in DOMAIN cache[i].offer.packages :
                    cache[i].offer.packages[j].product.productId = productId}
  IN IF hits = {} THEN 0 ELSE CHOOSE i \in hits : \A k \in hits : i >= k

\* the first package, in Map order, that sells the product; 0 when none does
FirstOfferWith(cache, productId) ==
  LET hits == {i \in DOMAIN cache :
                 \E j \in DOMAIN cache[i].offer.packages :
                    cache[i].offer.packages[j].product.productId = productId}
  IN IF hits = {} THEN 0 ELSE CHOOSE i \in hits : \A k \in hits : i <= k

FirstPackageWith(offer, productId) ==
  LET hits == {j \in DOMAIN offer.packages :
                 offer.packages[j].product.productId = productId}
  IN offer.packages[CHOOSE j \in hits : \A k \in hits : j <= k]

\* the snapshot loadCustomerInfo builds from the active entitlements, given
\* in the order of Object.keys
SubscriptionFrom(active, cache) ==
  IF Len(active) = 0
  THEN [isActive |-> FALSE, entitlements |-> <<>>]
  ELSE LET first == active[1]
           at    == FirstOfferWith(cache, first.productIdentifier)
       IN [isActive     |-> TRUE,
           productId    |-> first.productIdentifier,
           packageId    |-> IF at = 0 THEN UNDEFINED
                            ELSE FirstPackageWith(cache[at].offer,
                                   first.productIdentifier).packageId,
           entitlements |-> [i \in DOMAIN active |-> active[i].identifier],
           period       |-> IF at = 0 THEN UNDEFINED
                            ELSE FirstPackageWith(cache[at].offer,
                                   first.productIdentifier).product.period,
           willRenew    |-> first.willRenew]

\* a call that is not running, with how its last run ended
Idle(op, outcome) ==
  [op |-> op, pc |-> "idle", nested |-> "none", outcome |-> outcome]

\* a call suspended on an await
Awaiting(op, pc, nested) ==
  [op |-> op, pc |-> pc, nested |-> nested, outcome |-> "pending"]

\* The calls a call in slot t makes itself and awaits run in two slots of
\* its own, after the MaxTasks slots of the calls made from outside.
ChildSlot(t, k) == MaxTasks + 2 * (t - 1) + k

\* the slots whose call was made, and is still awaited, by the call in
\* another slot
Awaited(all, u) ==
  \E p \in DOMAIN all :
    /\ all[p].pc \in {"Promise.all", "loadCustomerInfo", "await loadOfferings"}
    /\ u \in {ChildSlot(p, 1), ChildSlot(p, 2)}

\* The record of slot t becomes `record`. Of the calls that have returned,
\* the slots keep how the last one ended, and how those ended that are still
\* awaited.
Put(all, t, record) ==
  LET put == [all EXCEPT ![t] = record] IN
  IF record.pc # "idle" THEN put
  ELSE [u \in DOMAIN put |->
          IF u = t \/ put[u].pc # "idle" \/ Awaited(put, u) THEN put[u]
          ELSE Idle("none", "none")]

NoRequests == [getOfferings |-> 0, getCustomerInfo |-> 0]
NothingFetched == [ok |-> FALSE]

\* the fields of the service as its constructor leaves them
NewService ==
  /\ offersCache = EmptyCache
  /\ currentSubscription = NullSubscription
  /\ isLoadingOfferings = FALSE
  /\ isLoadingCustomerInfo = FALSE
  /\ requests = NoRequests
  /\ fetched = NothingFetched
  /\ customerInfo = NothingFetched

\* the service as its constructor leaves it, with no call made
ServiceInit ==
  /\ NewService
  /\ tasks = [t \in 1..MaxTasks |-> Idle("none", "none")]

\* ------------------------------------------------------------- singleton
\* `let instance = null`, `let currentAdapter = null`
NullInstance == 0
NullAdapter  == [null |-> TRUE]

NoRound == [round |-> "none", invoked |-> <<>>, unsubscribed |-> {}]

\* the module-level state of the singleton when the module is loaded
LibraryInit ==
  /\ instance = NullInstance
  /\ currentAdapter = NullAdapter
  /\ currentUserId = UNDEFINED
  /\ userIdChangeListeners = <<>>
  /\ subscriptionRefreshListeners = <<>>
  /\ created = 0
  /\ notified = NoRound

\* ------------------------------------------------ web adapter: module state
\* `let purchasesInstance = null`
NullPurchases == [null |-> TRUE]

\* the module as loaded: no SDK instance, no user, no set-up in flight
RevenueCatInit ==
  /\ purchasesInstance = NullPurchases
  /\ rcCurrentUserId = NULL
  /\ pendingUserSetup = NULL

\* ---------------------------------------------------------------- actions
NoArg    == "<no argument>"
NoResult == "<no result>"

NoCurrent == [kind |-> "none", packageId |-> UNDEFINED, productId |-> UNDEFINED]

InitLevels ==
  /\ \E n \in 0..MaxLen :
       \E offers \in [1..n -> Offers(0..MaxPrice)] : packages = PackageList(offers)
  /\ current = NoCurrent
  /\ called = "none"
  /\ calls = 0
  /\ levels = EmptyMap
  /\ upgrades = <<>>
  /\ ServiceInit
  /\ LibraryInit
  /\ RevenueCatInit
  /\ arg = NoArg
  /\ result = NoResult

\* a call calculatePackageLevels(packages); the input array is only read
CalculatePackageLevels ==
  /\ calls < MaxCalls
  /\ \E tie \in TieOrders(Len(packages)) :
       levels' = calculatePackageLevels(packages, tie)
  /\ called' = "calculatePackageLevels"
  /\ calls' = calls + 1
  /\ UNCHANGED <<packages, current, upgrades, arg, result>>
  /\ UNCHANGED service
  /\ UNCHANGED library
  /\ UNCHANGED revenueCat

NextLevels == CalculatePackageLevels

SpecLevels == InitLevels /\ [][NextLevels]_vars

\* the catalog of the function's documentation, in every input order
ExampleCatalog ==
  << [packageId |-> "free", product |-> NoProduct],
     [packageId |-> "basic_monthly",
      product |-> [productId |-> "basic_m", period |-> "monthly", price |-> 5]],
     [packageId |-> "pro_monthly",
      product |-> [productId |-> "pro_m", period |-> "monthly", price |-> 10]],
     [packageId |-> "basic_yearly",
      product |-> [productId |-> "basic_y", period |-> "yearly", price |-> 50]],
     [packageId |-> "pro_yearly",
      product |-> [productId |-> "pro_y", period |-> "yearly", price |-> 100]] >>

InitExample ==
  /\ \E order \in Permutations(DOMAIN ExampleCatalog) :
       packages = [i \in DOMAIN ExampleCatalog |-> ExampleCatalog[order[i]]]
  /\ current = NoCurrent
  /\ called = "none"
  /\ calls = 0
  /\ levels = EmptyMap
  /\ upgrades = <<>>
  /\ ServiceInit
  /\ LibraryInit
  /\ RevenueCatInit
  /\ arg = NoArg
  /\ result = NoResult

SpecExample == InitExample /\ [][NextLevels]_vars

\* the arguments `current` is drawn from: null, undefined, a bare string, or an
\* object.  A field of the object is absent (undefined, null), empty, the id
\* of a listed package or product, or an id that is not listed; every way of
\* being absent is paired with every value of the other field that is an id
\* or undefined, and with every way of the other field being absent.
UnknownPackageId == "zz"
UnknownProductId == "ww"

FieldAbsent == {UNDEFINED, NULL, ""}

CurrentArgs(pkgs) ==
  LET packageIds == {pkgs[i].packageId : i \in 1..Len(pkgs)} \cup {UnknownPackageId}
      productIds == ProductIds \cup {UnknownProductId}
  IN  {[kind |-> "null", packageId |-> UNDEFINED, productId |-> UNDEFINED],
       [kind |-> "undefined", packageId |-> UNDEFINED, productId |-> UNDEFINED]}
      \cup [kind : {"string"}, packageId : packageIds \cup {""},
            productId : {UNDEFINED}]
      \cup [kind : {"object"}, packageId : packageIds \cup FieldAbsent,
            productId : productIds \cup {UNDEFINED}]
      \cup [kind : {"object"}, packageId : FieldAbsent \cup {UnknownPackageId},
            productId : FieldAbsent]

Init ==
  /\ \E n \in 0..MaxLen :
       \E offers \in [1..n -> Offers(UpgradePrices)] : packages = PackageList(offers)
  /\ current = NoCurrent
  /\ called = "none"
  /\ calls = 0
  /\ levels = EmptyMap
  /\ upgrades = <<>>
  /\ ServiceInit
  /\ LibraryInit
  /\ RevenueCatInit
  /\ arg = NoArg
  /\ result = NoResult

\* a call findUpgradeablePackages(current, packages); one call is made on each
\* drawn list
FindUpgradeablePackages ==
  /\ calls = 0
  /\ \E cur \in CurrentArgs(packages) :
       /\ current' = cur
       /\ upgrades' \in {findUpgradeablePackages(cur, packages, tie) :
                         tie \in TieOrders(Len(packages))}
  /\ called' = "findUpgradeablePackages"
  /\ calls' = calls + 1
  /\ UNCHANGED <<packages, levels, arg, result>>
  /\ UNCHANGED service
  /\ UNCHANGED library
  /\ UNCHANGED revenueCat

Next == FindUpgradeablePackages

Spec == Init /\ [][Next]_vars

\* a call getPackageLevel(packageId, packages), for the id of a listed package
\* or an id that is not listed
GetPackageLevel ==
  /\ calls = 0
  /\ \E id \in {packages[i].packageId : i \in 1..Len(packages)}
               \cup {UnknownPackageId} :
       /\ arg' = id
       /\ result' \in {getPackageLevel(id, packages, tie) :
                       tie \in TieOrders(Len(packages))}
  /\ called' = "getPackageLevel"
  /\ calls' = calls + 1
  /\ UNCHANGED <<packages, current, levels, upgrades>>
  /\ UNCHANGED service
  /\ UNCHANGED library
  /\ UNCHANGED revenueCat

\* a call addLevelsToPackages(packages)
AddLevelsToPackages ==
  /\ calls = 0
  /\ result' \in {addLevelsToPackages(packages, tie) :
                  tie \in TieOrders(Len(packages))}
  /\ called' = "addLevelsToPackages"
  /\ calls' = calls + 1
  /\ UNCHANGED <<packages, current, levels, upgrades, arg>>
  /\ UNCHANGED service
  /\ UNCHANGED library
  /\ UNCHANGED revenueCat

NextHelpers == GetPackageLevel \/ AddLevelsToPackages

SpecHelpers == Init /\ [][NextHelpers]_vars

\* the decimal numeral of n, most significant digit first
RECURSIVE Decimal(_)
Decimal(n) ==
  IF n < 10 THEN <<DecimalDigits[n + 1]>>
  ELSE Decimal(n \div 10) \o <<DecimalDigits[(n % 10) + 1]>>

Nines(k) == [i \in 1..k |-> "9"]

\* runs of digits: none, the numerals of 0..MaxValue and of the days around a
\* year, each also with a leading zero, and runs of 7 to MaxDigits nines
DigitRuns ==
  LET numerals == {Decimal(n) : n \in (0..MaxValue) \cup {364, 365, 366}} IN
  {<<>>} \cup numerals \cup {<<"0">> \o d : d \in numerals}
         \cup {Nines(k) : k \in 7..MaxDigits}

Prefixes == {<<"P">>, <<"p">>, <<>>, <<"P", "T">>, <<" ", "P">>,
             <<"P", "-">>, <<"P", "+">>}
Units    == {<<"D">>, <<"d">>, <<"W">>, <<"w">>, <<"M">>, <<"m">>,
             <<"Y">>, <<"y">>, <<"H">>, <<>>}
Suffixes == {<<>>, <<"1", "D">>, <<" ">>, <<"\n">>}

\* the characters of the free-form strings
Alphabet == {"P", "p", "1", "7", "D", "d", "g",
             "sharp s", "long s", "Kelvin sign"}

\* null, undefined, every string prefix-digits-unit-suffix and every string
\* of up to MaxStrLen characters of the alphabet
InitPeriods ==
  /\ \/ arg \in {NullDuration, UndefinedDuration}
     \/ \E p \in Prefixes, d \in DigitRuns, u \in Units, x \in Suffixes :
          arg = Str(p \o d \o u \o x)
     \/ \E n \in 0..MaxStrLen : \E chars \in [1..n -> Alphabet] :
          arg = Str(chars)
  /\ result = NoResult
  /\ packages = <<>>
  /\ current = NoCurrent
  /\ called = "none"
  /\ calls = 0
  /\ levels = EmptyMap
  /\ upgrades = <<>>
  /\ ServiceInit
  /\ LibraryInit
  /\ RevenueCatInit

\* a call parseISO8601Period(duration)
ParseISO8601Period ==
  /\ calls = 0
  /\ result' = parseISO8601Period(arg)
  /\ called' = "parseISO8601Period"
  /\ calls' = calls + 1
  /\ UNCHANGED <<packages, current, levels, upgrades, arg>>
  /\ UNCHANGED service
  /\ UNCHANGED library
  /\ UNCHANGED revenueCat

NextPeriods == ParseISO8601Period

SpecPeriods == InitPeriods /\ [][NextPeriods]_vars

\* three periods a, b, c, on which the rank functions are called
InitRanks ==
  /\ arg \in [1..3 -> SubscriptionPeriod]
  /\ result = NoResult
  /\ packages = <<>>
  /\ current = NoCurrent
  /\ called = "none"
  /\ calls = 0
  /\ levels = EmptyMap
  /\ upgrades = <<>>
  /\ ServiceInit
  /\ LibraryInit
  /\ RevenueCatInit

\* getPeriodRank(p) for each of the three periods
GetPeriodRank ==
  /\ calls = 0
  /\ result' = [x \in 1..3 |-> getPeriodRank(arg[x])]
  /\ called' = "getPeriodRank"
  /\ calls' = calls + 1
  /\ UNCHANGED <<packages, current, levels, upgrades, arg>>
  /\ UNCHANGED service
  /\ UNCHANGED library
  /\ UNCHANGED revenueCat

\* comparePeriods(p, q) for each pair of the three periods
ComparePeriods ==
  /\ calls = 0
  /\ result' = [x \in 1..3 |-> [y \in 1..3 |-> comparePeriods(arg[x], arg[y])]]
  /\ called' = "comparePeriods"
  /\ calls' = calls + 1
  /\ UNCHANGED <<packages, current, levels, upgrades, arg>>
  /\ UNCHANGED service
  /\ UNCHANGED library
  /\ UNCHANGED revenueCat

\* isPeriodGreaterOrEqual(p, q) for each pair of the three periods
IsPeriodGreaterOrEqual ==
  /\ calls = 0
  /\ result' = [x \in 1..3 |->
                 [y \in 1..3 |-> isPeriodGreaterOrEqual(arg[x], arg[y])]]
  /\ called' = "isPeriodGreaterOrEqual"
  /\ calls' = calls + 1
  /\ UNCHANGED <<packages, current, levels, upgrades, arg>>
  /\ UNCHANGED service
  /\ UNCHANGED library
  /\ UNCHANGED revenueCat

NextRanks == GetPeriodRank \/ ComparePeriods \/ IsPeriodGreaterOrEqual

SpecRanks == InitRanks /\ [][NextRanks]_vars

\* ------------------------------------------------------- service: adapter
\* what the adapter can answer
MonthlyOffering ==
  [identifier |-> "monthly_offering",
   availablePackages |->
     <<[identifier |-> "monthly",
        product |-> [identifier |-> "pm", price |-> 5,
                     normalPeriodDuration |-> Str(P1M)]]>>]
YearlyOffering ==
  [identifier |-> "yearly_offering",
   availablePackages |->
     <<[identifier |-> "annual",
        product |-> [identifier |-> "py", price |-> 50,
                     normalPeriodDuration |-> Str(P1Y)]]>>]

AdapterOfferings == {MonthlyOffering, YearlyOffering}
OfferKeys        == {"default", "premium"}

\* offerings.all: distinct keys in property order, each with an offering
AllEntries ==
  LET Entry == [key : OfferKeys, offering : AdapterOfferings] IN
  {<<>>} \cup {<<e>> : e \in Entry}
         \cup {p \in Entry \X Entry : p[1].key # p[2].key}

Rejection == [ok |-> FALSE]

OfferingsResponses ==
  {Rejection} \cup
  [ok : {TRUE}, all : AllEntries, current : {NullOffering} \cup AdapterOfferings]

Entitlement(productId) ==
  [identifier |-> "premium", productIdentifier |-> productId, willRenew |-> TRUE]

\* customerInfo.entitlements.active: none, or one for a product that is or is
\* not on sale
CustomerInfoResponses ==
  {Rejection} \cup
  [ok : {TRUE}, active : {<<>>, <<Entitlement("pm")>>, <<Entitlement("pz")>>}]

SentOn(reqs, method) == [reqs EXCEPT ![method] = @ + 1]

Sent(method)    == SentOn(requests, method)
Settled(method) == [requests EXCEPT ![method] = @ - 1]

\* ------------------------------------------------------- service: actions
InitService ==
  /\ ServiceInit
  /\ LibraryInit
  /\ RevenueCatInit
  /\ packages = <<>>
  /\ current = NoCurrent
  /\ called = "none"
  /\ calls = 0
  /\ levels = EmptyMap
  /\ upgrades = <<>>
  /\ arg = NoArg
  /\ result = NoResult

\* loadOfferings() up to its first await: it returns at once when a load is
\* in flight, otherwise it raises the flag, calls adapter.getOfferings and
\* awaits it
loadOfferingsStarts(loading, reqs) ==
  IF AlreadyLoading(loading)
  THEN [task |-> Idle("loadOfferings", "skipped"),
        isLoadingOfferings |-> loading, requests |-> reqs]
  ELSE [task |-> Awaiting("loadOfferings", "getOfferings", "none"),
        isLoadingOfferings |-> TRUE, requests |-> SentOn(reqs, "getOfferings")]

\* loadOfferings() is called
CallLoadOfferings(t) ==
  /\ tasks[t].pc = "idle"
  /\ LET started == loadOfferingsStarts(isLoadingOfferings, requests) IN
       /\ tasks' = Put(tasks, t, started.task)
       /\ isLoadingOfferings' = started.isLoadingOfferings
       /\ requests' = started.requests
  /\ UNCHANGED <<offersCache, currentSubscription, isLoadingCustomerInfo, fetched,
               customerInfo>>
  /\ UNCHANGED functions
  /\ UNCHANGED library
  /\ UNCHANGED revenueCat

\* the finally block of loadOfferings is left out
LoadOfferingsResumes_KeepsFlag(response) ==
  /\ requests' = Settled("getOfferings")
  /\ offersCache' = OffersAfterFetch(offersCache, response)
  /\ isLoadingOfferings' = isLoadingOfferings
  /\ fetched' = IF response.ok THEN response ELSE fetched

\* what the body of loadOfferings does once adapter.getOfferings has settled,
\* up to and including the finally block
LoadOfferingsResumes(response) ==
  /\ requests' = Settled("getOfferings")
  /\ offersCache' = OffersAfterFetch(offersCache, response)
  /\ isLoadingOfferings' = FALSE
  /\ fetched' = IF response.ok THEN response ELSE fetched

\* adapter.getOfferings settles, with one of `responses`, for a loadOfferings
\* call that loadCustomerInfo did not make
GetOfferingsSettlesWith(t, responses) ==
  /\ tasks[t].pc = "getOfferings"
  /\ \E response \in responses :
       /\ LoadOfferingsResumes(response)
       /\ tasks' =
            Put(tasks, t, Idle("loadOfferings", IF response.ok THEN "resolved" ELSE "rejected"))
  /\ UNCHANGED <<currentSubscription, isLoadingCustomerInfo, customerInfo>>
  /\ UNCHANGED functions
  /\ UNCHANGED library
  /\ UNCHANGED revenueCat

GetOfferingsSettles(t) == GetOfferingsSettlesWith(t, OfferingsResponses)

\* loadCustomerInfo() up to its first await: it returns at once when one is
\* in flight; otherwise it raises the flag and, when no offer is cached, calls
\* loadOfferings() and awaits it, else calls adapter.getCustomerInfo
loadCustomerInfoStarts(loading, loadingOfferings, cache, reqs) ==
  IF AlreadyLoading(loading)
  THEN [task |-> Idle("loadCustomerInfo", "skipped"),
        isLoadingCustomerInfo |-> loading,
        isLoadingOfferings |-> loadingOfferings, requests |-> reqs]
  ELSE IF ~hasLoadedOfferings(cache)
  THEN LET started == loadOfferingsStarts(loadingOfferings, reqs) IN
       [task |-> Awaiting("loadCustomerInfo", "loadOfferings",
                          IF started.task.pc = "idle" THEN "skipped"
                          ELSE "getOfferings"),
        isLoadingCustomerInfo |-> TRUE,
        isLoadingOfferings |-> started.isLoadingOfferings,
        requests |-> started.requests]
  ELSE [task |-> Awaiting("loadCustomerInfo", "getCustomerInfo", "none"),
        isLoadingCustomerInfo |-> TRUE,
        isLoadingOfferings |-> loadingOfferings,
        requests |-> SentOn(reqs, "getCustomerInfo")]

\* loadCustomerInfo() is called
CallLoadCustomerInfo(t) ==
  /\ tasks[t].pc = "idle"
  /\ LET started == loadCustomerInfoStarts(isLoadingCustomerInfo,
                       isLoadingOfferings, offersCache, requests) IN
       /\ tasks' = Put(tasks, t, started.task)
       /\ isLoadingCustomerInfo' = started.isLoadingCustomerInfo
       /\ isLoadingOfferings' = started.isLoadingOfferings
       /\ requests' = started.requests
  /\ UNCHANGED <<offersCache, currentSubscription, fetched, customerInfo>>
  /\ UNCHANGED functions
  /\ UNCHANGED library
  /\ UNCHANGED revenueCat

\* adapter.getOfferings settles, with one of `responses`, for the
\* loadOfferings call that loadCustomerInfo made
NestedGetOfferingsSettlesWith(t, responses) ==
  /\ tasks[t].pc = "loadOfferings"
  /\ tasks[t].nested = "getOfferings"
  /\ \E response \in responses :
       /\ LoadOfferingsResumes(response)
       /\ tasks' = [tasks EXCEPT ![t].nested =
                      IF response.ok THEN "resolved" ELSE "rejected"]
  /\ UNCHANGED <<currentSubscription, isLoadingCustomerInfo, customerInfo>>
  /\ UNCHANGED functions
  /\ UNCHANGED library
  /\ UNCHANGED revenueCat

NestedGetOfferingsSettles(t) ==
  NestedGetOfferingsSettlesWith(t, OfferingsResponses)

\* loadCustomerInfo resumes after `await this.loadOfferings()`: a rejection
\* leaves through the finally block, otherwise adapter.getCustomerInfo is
\* called
LoadCustomerInfoResumes(t) ==
  /\ tasks[t].pc = "loadOfferings"
  /\ tasks[t].nested \in {"skipped", "resolved", "rejected"}
  /\ IF tasks[t].nested = "rejected"
     THEN /\ isLoadingCustomerInfo' = FALSE
          /\ tasks' = Put(tasks, t, Idle("loadCustomerInfo", "rejected"))
          /\ UNCHANGED requests
     ELSE /\ requests' = Sent("getCustomerInfo")
          /\ tasks' =
               Put(tasks, t, Awaiting("loadCustomerInfo", "getCustomerInfo", "none"))
          /\ UNCHANGED isLoadingCustomerInfo
  /\ UNCHANGED <<offersCache, currentSubscription, isLoadingOfferings, fetched,
               customerInfo>>
  /\ UNCHANGED functions
  /\ UNCHANGED library
  /\ UNCHANGED revenueCat

\* adapter.getCustomerInfo settles with one of `responses`: the snapshot is
\* rebuilt unless it rejected, and the finally block lowers the flag
GetCustomerInfoSettlesWith(t, responses) ==
  /\ tasks[t].pc = "getCustomerInfo"
  /\ \E response \in responses :
       /\ currentSubscription' =
            IF response.ok THEN SubscriptionFrom(response.active, offersCache)
            ELSE currentSubscription
       /\ tasks' =
            Put(tasks, t, Idle("loadCustomerInfo", IF response.ok THEN "resolved" ELSE "rejected"))
       /\ customerInfo' = IF response.ok THEN response ELSE customerInfo
  /\ requests' = Settled("getCustomerInfo")
  /\ isLoadingCustomerInfo' = FALSE
  /\ UNCHANGED <<offersCache, isLoadingOfferings, fetched>>
  /\ UNCHANGED functions
  /\ UNCHANGED library
  /\ UNCHANGED revenueCat

GetCustomerInfoSettles(t) ==
  GetCustomerInfoSettlesWith(t, CustomerInfoResponses)

NextService ==
  \E t \in 1..MaxTasks :
    \/ CallLoadOfferings(t)
    \/ GetOfferingsSettles(t)
    \/ CallLoadCustomerInfo(t)
    \/ NestedGetOfferingsSettles(t)
    \/ LoadCustomerInfoResumes(t)
    \/ GetCustomerInfoSettles(t)

SpecService == InitService /\ [][NextService]_vars

\* ------------------------------------------------ the RevenueCat web adapter
Range(f) == {f[i] : i \in DOMAIN f}

\* what the provider's SDK serves: its packages carry an rcBillingProduct
ProviderPackage(id, productId, micros, duration) ==
  [identifier |-> id,
   rcBillingProduct |-> [identifier |-> productId,
                         currentPrice |-> [amountMicros |-> micros],
                         normalPeriodDuration |-> duration]]

ProviderMonthly ==
  [identifier |-> "monthly_offering",
   availablePackages |->
     <<ProviderPackage("monthly", "pm", 5000000, Str(P1M))>>]

ProviderBundle ==
  [identifier |-> "bundle_offering",
   availablePackages |->
     <<ProviderPackage("annual", "py", 50000000, Str(P1Y)),
       ProviderPackage("promo", "pm", 3000000, Str(P1M))>>]

\* the catalog configured at the provider
ProviderCatalog ==
  [all |-> <<[key |-> "default", offering |-> ProviderMonthly],
             [key |-> "premium", offering |-> ProviderBundle]>>,
   current |-> ProviderMonthly]

ProviderFailure == [ok |-> FALSE]

convertPackage(pkg) ==
  [identifier |-> pkg.identifier,
   product |->
     [identifier |-> pkg.rcBillingProduct.identifier,
      price |-> IF pkg.rcBillingProduct.currentPrice.amountMicros # 0
                THEN pkg.rcBillingProduct.currentPrice.amountMicros \div 1000000
                ELSE 0,
      normalPeriodDuration |-> pkg.rcBillingProduct.normalPeriodDuration]]

convertOffering(offering) ==
  [identifier |-> offering.identifier,
   availablePackages |-> [i \in DOMAIN offering.availablePackages |->
                            convertPackage(offering.availablePackages[i])]]

\* a getOfferings without the catch block
WebGetOfferings_Rethrows(outcome) ==
  IF outcome.ok
  THEN [ok |-> TRUE,
        all |-> [i \in DOMAIN outcome.offerings.all |->
                   [key |-> outcome.offerings.all[i].key,
                    offering |-> convertOffering(outcome.offerings.all[i].offering)]],
        current |-> IF outcome.offerings.current # NullOffering
                    THEN convertOffering(outcome.offerings.current)
                    ELSE NullOffering,
        caught |-> FALSE]
  ELSE [ok |-> FALSE]

\* the adapter's getOfferings: the provider's answer converted, or the empty
\* answer of the catch block; `caught` tells the two apart
WebGetOfferings(outcome) ==
  IF outcome.ok
  THEN [ok |-> TRUE,
        all |-> [i \in DOMAIN outcome.offerings.all |->
                   [key |-> outcome.offerings.all[i].key,
                    offering |-> convertOffering(outcome.offerings.all[i].offering)]],
        current |-> IF outcome.offerings.current # NullOffering
                    THEN convertOffering(outcome.offerings.current)
                    ELSE NullOffering,
        caught |-> FALSE]
  ELSE [ok |-> TRUE, all |-> <<>>, current |-> NullOffering, caught |-> TRUE]

ProviderOfferingsOutcomes ==
  {ProviderFailure, [ok |-> TRUE, offerings |-> ProviderCatalog]}

WebOfferingsResponses ==
  {WebGetOfferings(outcome) : outcome \in ProviderOfferingsOutcomes}

ProviderEntitlement(id, productId) ==
  [identifier |-> id, productIdentifier |-> productId, willRenew |-> TRUE]

\* customerInfo.entitlements.active at the provider: none, one for a product
\* of the catalog or for one that is not on sale, or two
ProviderActive ==
  {<<>>,
   <<ProviderEntitlement("premium", "pm")>>,
   <<ProviderEntitlement("premium", "pz")>>,
   <<ProviderEntitlement("premium", "py"), ProviderEntitlement("extras", "pm")>>}

\* the adapter has no user, or the provider fails, or it answers
ProviderCustomerOutcomes ==
  {[user |-> FALSE], [user |-> TRUE, ok |-> FALSE]} \cup
  [user : {TRUE}, ok : {TRUE}, active : ProviderActive]

\* the adapter's getCustomerInfo: empty without a user and from the catch
\* block, otherwise the provider's active entitlements, copied
WebGetCustomerInfo(outcome) ==
  IF ~outcome.user
  THEN [ok |-> TRUE, active |-> <<>>, caught |-> FALSE]
  ELSE IF ~outcome.ok
  THEN [ok |-> TRUE, active |-> <<>>, caught |-> TRUE]
  ELSE [ok |-> TRUE,
        active |-> [i \in DOMAIN outcome.active |->
                      [identifier |-> outcome.active[i].identifier,
                       productIdentifier |-> outcome.active[i].productIdentifier,
                       willRenew |-> outcome.active[i].willRenew]],
        caught |-> FALSE]

WebCustomerInfoResponses ==
  {WebGetCustomerInfo(outcome) : outcome \in ProviderCustomerOutcomes}

\* the package the adapter's purchase looks for across offerings.all
PackageToPurchase(offerings, packageId) ==
  {pkg \in UNION {Range(offerings.all[i].offering.availablePackages) :
                    i \in DOMAIN offerings.all} :
     pkg.identifier = packageId}

\* the provider's part in a purchase: its SDK is not ready or its catalog
\* fetch fails, or the catalog arrives and the payment succeeds or not
ProviderPurchaseOutcomes ==
  {ProviderFailure} \cup
  [ok : {TRUE}, offerings : {ProviderCatalog}, paid : BOOLEAN]

\* a purchase that pays for nothing when the package is not found
WebPurchase_Lenient(params, outcome) ==
  IF ~outcome.ok
  THEN [ok |-> FALSE, error |-> "provider"]
  ELSE IF PackageToPurchase(outcome.offerings, params.packageId) # {}
          /\ ~outcome.paid
  THEN [ok |-> FALSE, error |-> "provider"]
  ELSE [ok |-> TRUE]

\* the adapter's purchase: it rejects unless the package is found and paid
WebPurchase(params, outcome) ==
  IF ~outcome.ok
  THEN [ok |-> FALSE, error |-> "provider"]
  ELSE IF PackageToPurchase(outcome.offerings, params.packageId) = {}
  THEN [ok |-> FALSE, error |-> "Package not found"]
  ELSE IF ~outcome.paid
  THEN [ok |-> FALSE, error |-> "provider"]
  ELSE [ok |-> TRUE]

WebAdapter == [name |-> "revenuecat-web", setUserId |-> TRUE]

\* how the adapter's setUserId can settle: setRevenueCatUser may fail,
\* clearRevenueCatUser does not
WebSetUserId(userId) ==
  IF userId # UNDEFINED THEN {"resolved", "rejected"} ELSE {"resolved"}

\* ------------------------------------------------- singleton: operators
UserIds    == {UNDEFINED, "alice", "bob"}
PurchaseIds == {"monthly", "promo", "unknown"}
Listeners  == 1..MaxListeners

\* Array.indexOf, counting from 1; 0 when absent
indexOf(list, l) ==
  IF \E i \in DOMAIN list : list[i] = l
  THEN CHOOSE i \in DOMAIN list :
         list[i] = l /\ \A k \in DOMAIN list : list[k] = l => i <= k
  ELSE 0

\* the unsubscribe handle: indexOf, then splice(index, 1) when found
Unsubscribed(list, l) ==
  LET index == indexOf(list, l) IN
  IF index >= 1
  THEN SubSeq(list, 1, index - 1) \o SubSeq(list, index + 1, Len(list))
  ELSE list

\* a loop that starts with the listener registered last
NotifyFrom_LastFirst(list, i, invoked, leaving) ==
  [list |-> list,
   invoked |-> [k \in DOMAIN list |-> list[Len(list) + 1 - k]]]

\* `for (const listener of list) listener()`: the array iterator reads
\* list[i] from the live array and stops when i reaches its length. The
\* listeners in `leaving` call their own unsubscribe handle when invoked, the
\* others only look.
RECURSIVE NotifyFrom(_, _, _, _)
NotifyFrom(list, i, invoked, leaving) ==
  IF i > Len(list) THEN [list |-> list, invoked |-> invoked]
  ELSE NotifyFrom(IF list[i] \in leaving THEN Unsubscribed(list, list[i])
                  ELSE list,
                  i + 1, Append(invoked, list[i]), leaving)

\* the listeners of a list that may call their handle during a round
Leaving(list) == SUBSET {list[i] : i \in DOMAIN list}

\* what a listener sees of the library when it is invoked
Seen(l, userId, subscription) ==
  [listener |-> l, userId |-> userId, subscription |-> subscription]

Round(kind, invoked, userId, subscription, leaving) ==
  [round |-> kind,
   invoked |-> [i \in DOMAIN invoked |-> Seen(invoked[i], userId, subscription)],
   unsubscribed |-> leaving]

\* instance.clearCustomerInfo()
clearCustomerInfo(subscription) == NullSubscription

\* getCurrentSubscription as a listener can call it: there is none to ask
\* while no instance is set
NoInstance == [uninitialized |-> TRUE]

\* an adapter whose setUserId is never found
HasSetUserId_Never(adapter) == FALSE

\* `currentAdapter?.setUserId`
HasSetUserId(adapter) == adapter # NullAdapter /\ adapter.setUserId

\* the calls made from outside use the slots 1..MaxTasks
TopLevel == 1..MaxTasks
Slots == 1..(3 * MaxTasks)

\* a slot is vacant when the last call made in it, and whatever that call
\* started, have finished; a new call takes the first vacant slot
Vacant(t) ==
  /\ tasks[t].pc = "idle"
  /\ tasks[ChildSlot(t, 1)].pc = "idle"
  /\ tasks[ChildSlot(t, 2)].pc = "idle"

Free(t) ==
  /\ t \in TopLevel
  /\ Vacant(t)
  /\ \A u \in TopLevel : u < t => ~Vacant(u)

WithArg(task, name, value) == task @@ (name :> value)

\* the calls in flight on a service that the singleton lets go of: they run
\* on without touching the singleton's next service
IsOrphan(task) ==
  \/ task.pc \in {"getOfferings", "loadOfferings", "getCustomerInfo", "purchase"}
  \/ task.op = "purchase" /\ task.pc = "loadCustomerInfo"

Orphaned(all) ==
  [t \in DOMAIN all |->
     IF IsOrphan(all[t]) THEN Awaiting(all[t].op, "orphan", "none") ELSE all[t]]

\* a promise that is never seen rejected
Promise_NeverRejected(task) ==
  IF task.pc # "idle" THEN "pending" ELSE "resolved"

\* how the promise of a call in a slot stands
Promise(task) ==
  IF task.pc # "idle" THEN "pending"
  ELSE IF task.outcome = "rejected" THEN "rejected" ELSE "resolved"

\* ---------------------------------------------------- singleton: actions
InitLibrary ==
  /\ LibraryInit
  /\ RevenueCatInit
  /\ NewService
  /\ tasks = [t \in Slots |-> Idle("none", "none")]
  /\ packages = <<>>
  /\ current = NoCurrent
  /\ called = "none"
  /\ calls = 0
  /\ levels = EmptyMap
  /\ upgrades = <<>>
  /\ arg = NoArg
  /\ result = NoResult

\* the library once the application has called initializeSubscription with
\* the web adapter, which constructs the service
InitReady ==
  /\ instance = 1
  /\ currentAdapter = WebAdapter
  /\ currentUserId = UNDEFINED
  /\ userIdChangeListeners = <<>>
  /\ subscriptionRefreshListeners = <<>>
  /\ created = 1
  /\ notified = NoRound
  /\ RevenueCatInit
  /\ NewService
  /\ tasks = [t \in Slots |-> Idle("none", "none")]
  /\ packages = <<>>
  /\ current = NoCurrent
  /\ called = "initializeSubscription"
  /\ calls = 0
  /\ levels = EmptyMap
  /\ upgrades = <<>>
  /\ arg = NoArg
  /\ result = NoResult

\* `new SubscriptionService(...)` replaces the service the variables describe
ServiceReplaced ==
  /\ offersCache' = EmptyCache
  /\ currentSubscription' = NullSubscription
  /\ isLoadingOfferings' = FALSE
  /\ isLoadingCustomerInfo' = FALSE
  /\ requests' = NoRequests
  /\ fetched' = NothingFetched
  /\ customerInfo' = NothingFetched
  /\ tasks' = Orphaned(tasks)

InitializeSubscription(adapter) ==
  /\ created < MaxInits
  /\ currentAdapter' = adapter
  /\ created' = created + 1
  /\ instance' = created + 1
  /\ ServiceReplaced
  /\ called' = "initializeSubscription"
  /\ result' = NoResult
  /\ UNCHANGED <<currentUserId, userIdChangeListeners,
                 subscriptionRefreshListeners, notified>>
  /\ UNCHANGED <<packages, current, calls, levels, upgrades, arg>>
  /\ UNCHANGED revenueCat

ResetSubscription ==
  /\ instance' = NullInstance
  /\ ServiceReplaced
  /\ called' = "resetSubscription"
  /\ result' = NoResult
  /\ UNCHANGED <<currentAdapter, currentUserId, userIdChangeListeners,
                 subscriptionRefreshListeners, created, notified>>
  /\ UNCHANGED <<packages, current, calls, levels, upgrades, arg>>
  /\ UNCHANGED revenueCat

Throws(message) == [throws |-> message]
Returns(value)  == [returns |-> value]

\* a getSubscriptionInstance that hands out whatever `instance` holds
GetSubscriptionInstance_NeverThrows ==
  /\ called' = "getSubscriptionInstance"
  /\ result' = Returns(instance)
  /\ UNCHANGED <<packages, current, calls, levels, upgrades, arg>>
  /\ UNCHANGED service
  /\ UNCHANGED library
  /\ UNCHANGED revenueCat

GetSubscriptionInstance ==
  /\ called' = "getSubscriptionInstance"
  /\ result' = IF instance = NullInstance
               THEN Throws("Subscription not initialized")
               ELSE Returns(instance)
  /\ UNCHANGED <<packages, current, calls, levels, upgrades, arg>>
  /\ UNCHANGED service
  /\ UNCHANGED library
  /\ UNCHANGED revenueCat

IsSubscriptionInitialized ==
  /\ called' = "isSubscriptionInitialized"
  /\ result' = Returns(instance # NullInstance)
  /\ UNCHANGED <<packages, current, calls, levels, upgrades, arg>>
  /\ UNCHANGED service
  /\ UNCHANGED library
  /\ UNCHANGED revenueCat

\* a call that ran on a service the singleton let go of settles
OrphanSettles(t) ==
  /\ tasks[t].pc = "orphan"
  /\ \E outcome \in {"resolved"} \cup
                    (IF tasks[t].op = "purchase" THEN {"rejected"} ELSE {}) :
       tasks' = Put(tasks, t, Idle(tasks[t].op, outcome))
  /\ UNCHANGED <<offersCache, currentSubscription, isLoadingOfferings,
                 isLoadingCustomerInfo, requests, fetched, customerInfo>>
  /\ UNCHANGED functions
  /\ UNCHANGED library
  /\ UNCHANGED revenueCat

\* refreshSubscription() is called: it returns when no instance is set,
\* otherwise it calls loadOfferings() and loadCustomerInfo(), one after the
\* other, and awaits both
RefreshSubscription(t) ==
  /\ Free(t)
  /\ IF instance = NullInstance
     THEN /\ tasks' = Put(tasks, t, Idle("refreshSubscription", "resolved"))
          /\ UNCHANGED <<isLoadingOfferings, isLoadingCustomerInfo, requests>>
     ELSE LET first  == loadOfferingsStarts(isLoadingOfferings, requests)
              second == loadCustomerInfoStarts(isLoadingCustomerInfo,
                          first.isLoadingOfferings, offersCache, first.requests)
          IN /\ tasks' =
                  Put(Put(Put(tasks, t, Awaiting("refreshSubscription", "Promise.all", "none")), ChildSlot(t, 1), first.task), ChildSlot(t, 2), second.task)
             /\ isLoadingOfferings' = second.isLoadingOfferings
             /\ isLoadingCustomerInfo' = second.isLoadingCustomerInfo
             /\ requests' = second.requests
  /\ UNCHANGED <<offersCache, currentSubscription, fetched, customerInfo>>
  /\ UNCHANGED functions
  /\ UNCHANGED library
  /\ UNCHANGED revenueCat

\* Promise.all has settled: refreshSubscription rejects when one of the two
\* loads rejected, otherwise it notifies the refresh listeners and resolves
RefreshResumes(t) ==
  /\ tasks[t].pc = "Promise.all"
  /\ LET first  == Promise(tasks[ChildSlot(t, 1)])
         second == Promise(tasks[ChildSlot(t, 2)])
     IN \/ /\ "rejected" \in {first, second}
           /\ tasks' = Put(tasks, t, Idle("refreshSubscription", "rejected"))
           /\ UNCHANGED <<subscriptionRefreshListeners, notified>>
        \/ /\ first = "resolved" /\ second = "resolved"
           /\ tasks' = Put(tasks, t, Idle("refreshSubscription", "resolved"))
           /\ \E leaving \in Leaving(subscriptionRefreshListeners) :
                LET done == NotifyFrom(subscriptionRefreshListeners, 1, <<>>,
                                       leaving)
                IN /\ subscriptionRefreshListeners' = done.list
                   /\ notified' = Round("refresh", done.invoked, currentUserId,
                                        IF instance = NullInstance THEN NoInstance
                                        ELSE currentSubscription, leaving)
  /\ UNCHANGED <<offersCache, currentSubscription, isLoadingOfferings,
                 isLoadingCustomerInfo, requests, fetched, customerInfo>>
  /\ UNCHANGED <<instance, currentAdapter, currentUserId,
                 userIdChangeListeners, created>>
  /\ UNCHANGED functions
  /\ UNCHANGED revenueCat

\* the listeners are invoked and the snapshot is left as it is
UserIdChanged_NoClear(userId, leaving) ==
  LET done == NotifyFrom(userIdChangeListeners, 1, <<>>, leaving)
  IN /\ currentSubscription' = currentSubscription
     /\ userIdChangeListeners' = done.list
     /\ notified' = Round("userIdChange", done.invoked, userId,
                          IF instance = NullInstance THEN NoInstance
                          ELSE currentSubscription, leaving)

\* lines 143-150 of setSubscriptionUserId, run without suspension: the
\* snapshot is cleared when an instance is set, then the listeners are invoked
UserIdChanged(userId, leaving) ==
  LET cleared == IF instance # NullInstance
                 THEN clearCustomerInfo(currentSubscription)
                 ELSE currentSubscription
      done == NotifyFrom(userIdChangeListeners, 1, <<>>, leaving)
  IN /\ currentSubscription' = cleared
     /\ userIdChangeListeners' = done.list
     /\ notified' = Round("userIdChange", done.invoked, userId,
                          IF instance = NullInstance THEN NoInstance
                          ELSE cleared, leaving)

\* the call goes to the adapter whatever the current id is
SetSubscriptionUserId_NoSkip(t, userId) ==
  /\ Free(t)
  /\ currentUserId' = userId
  /\ IF HasSetUserId(currentAdapter)
     THEN /\ tasks' =
               Put(tasks, t, WithArg(Awaiting("setSubscriptionUserId", "setUserId", "none"), "userId", userId))
          /\ UNCHANGED <<currentSubscription, userIdChangeListeners, notified>>
     ELSE /\ tasks' =
               Put(tasks, t, WithArg(Idle("setSubscriptionUserId", "resolved"), "userId", userId))
          /\ \E leaving \in Leaving(userIdChangeListeners) :
               UserIdChanged(userId, leaving)
  /\ UNCHANGED <<offersCache, isLoadingOfferings, isLoadingCustomerInfo,
                 requests, fetched, customerInfo>>
  /\ UNCHANGED <<instance, currentAdapter, subscriptionRefreshListeners, created>>
  /\ UNCHANGED functions
  /\ UNCHANGED revenueCat

\* setSubscriptionUserId(userId) is called: it returns when the id is the
\* current one; otherwise it stores the id and awaits the adapter's
\* setUserId, or goes on at once when there is none to call
SetSubscriptionUserId(t, userId) ==
  /\ Free(t)
  /\ IF currentUserId = userId
     THEN /\ tasks' =
               Put(tasks, t, WithArg(Idle("setSubscriptionUserId", "skipped"), "userId", userId))
          /\ UNCHANGED <<currentUserId, currentSubscription,
                         userIdChangeListeners, notified>>
     ELSE /\ currentUserId' = userId
          /\ IF HasSetUserId(currentAdapter)
             THEN /\ tasks' =
                       Put(tasks, t, WithArg(Awaiting("setSubscriptionUserId", "setUserId", "none"), "userId", userId))
                  /\ UNCHANGED <<currentSubscription, userIdChangeListeners,
                                 notified>>
             ELSE /\ tasks' =
                       Put(tasks, t, WithArg(Idle("setSubscriptionUserId", "resolved"), "userId", userId))
                  /\ \E leaving \in Leaving(userIdChangeListeners) :
                       UserIdChanged(userId, leaving)
  /\ UNCHANGED <<offersCache, isLoadingOfferings, isLoadingCustomerInfo,
                 requests, fetched, customerInfo>>
  /\ UNCHANGED <<instance, currentAdapter, subscriptionRefreshListeners, created>>
  /\ UNCHANGED functions
  /\ UNCHANGED revenueCat

\* the adapter's setUserId settles: a rejection ends the call, otherwise the
\* snapshot is cleared and the listeners are invoked
SetUserIdSettles(t) ==
  /\ tasks[t].pc = "setUserId"
  /\ \/ /\ "rejected" \in WebSetUserId(tasks[t].userId)
        /\ tasks' = Put(tasks, t,
                        WithArg(Idle("setSubscriptionUserId", "rejected"),
                                "userId", tasks[t].userId))
        /\ UNCHANGED <<currentSubscription, userIdChangeListeners, notified>>
     \/ /\ tasks' = Put(tasks, t,
                        WithArg(Idle("setSubscriptionUserId", "resolved"),
                                "userId", tasks[t].userId))
        /\ \E leaving \in Leaving(userIdChangeListeners) :
             UserIdChanged(currentUserId, leaving)
  /\ UNCHANGED <<offersCache, isLoadingOfferings, isLoadingCustomerInfo,
                 requests, fetched, customerInfo>>
  /\ UNCHANGED <<instance, currentAdapter, currentUserId,
                 subscriptionRefreshListeners, created>>
  /\ UNCHANGED functions
  /\ UNCHANGED revenueCat

\* onSubscriptionUserIdChange(listener), with a function not in the array
OnSubscriptionUserIdChange(l) ==
  /\ indexOf(userIdChangeListeners, l) = 0
  /\ userIdChangeListeners' = Append(userIdChangeListeners, l)
  /\ UNCHANGED <<instance, currentAdapter, currentUserId,
                 subscriptionRefreshListeners, created, notified>>
  /\ UNCHANGED service
  /\ UNCHANGED functions
  /\ UNCHANGED revenueCat

\* the handle onSubscriptionUserIdChange returned for `l` is called
UnsubscribeUserIdChange(l) ==
  /\ userIdChangeListeners' = Unsubscribed(userIdChangeListeners, l)
  /\ UNCHANGED <<instance, currentAdapter, currentUserId,
                 subscriptionRefreshListeners, created, notified>>
  /\ UNCHANGED service
  /\ UNCHANGED functions
  /\ UNCHANGED revenueCat

\* onSubscriptionRefresh(listener), with a function not in the array
OnSubscriptionRefresh(l) ==
  /\ indexOf(subscriptionRefreshListeners, l) = 0
  /\ subscriptionRefreshListeners' = Append(subscriptionRefreshListeners, l)
  /\ UNCHANGED <<instance, currentAdapter, currentUserId,
                 userIdChangeListeners, created, notified>>
  /\ UNCHANGED service
  /\ UNCHANGED functions
  /\ UNCHANGED revenueCat

\* the handle onSubscriptionRefresh returned for `l` is called
UnsubscribeRefresh(l) ==
  /\ subscriptionRefreshListeners' = Unsubscribed(subscriptionRefreshListeners, l)
  /\ UNCHANGED <<instance, currentAdapter, currentUserId,
                 userIdChangeListeners, created, notified>>
  /\ UNCHANGED service
  /\ UNCHANGED functions
  /\ UNCHANGED revenueCat

\* getSubscriptionInstance().loadOfferings(), as the hooks call it
InstanceLoadOfferings(t) ==
  /\ instance # NullInstance
  /\ Free(t)
  /\ CallLoadOfferings(t)

\* getSubscriptionInstance().loadCustomerInfo(), as the hooks call it
InstanceLoadCustomerInfo(t) ==
  /\ instance # NullInstance
  /\ Free(t)
  /\ CallLoadCustomerInfo(t)

\* the adapter the singleton was given answers
WebGetOfferingsSettles(t) == GetOfferingsSettlesWith(t, WebOfferingsResponses)

WebNestedGetOfferingsSettles(t) ==
  NestedGetOfferingsSettlesWith(t, WebOfferingsResponses)

WebGetCustomerInfoSettles(t) ==
  GetCustomerInfoSettlesWith(t, WebCustomerInfoResponses)

\* getSubscriptionInstance().purchase(params) is called: it calls the
\* adapter's purchase and awaits it
Purchase(t, packageId) ==
  /\ instance # NullInstance
  /\ Free(t)
  /\ tasks' =
       Put(tasks, t, WithArg(Awaiting("purchase", "purchase", "none"), "packageId", packageId))
  /\ UNCHANGED <<offersCache, currentSubscription, isLoadingOfferings,
                 isLoadingCustomerInfo, requests, fetched, customerInfo>>
  /\ UNCHANGED functions
  /\ UNCHANGED library
  /\ UNCHANGED revenueCat

\* the adapter's purchase settles: a rejection ends the call, otherwise
\* loadCustomerInfo() is called and awaited
PurchaseSettles(t) ==
  /\ tasks[t].pc = "purchase"
  /\ \E outcome \in ProviderPurchaseOutcomes :
       LET settled == WebPurchase([packageId |-> tasks[t].packageId], outcome)
           started == loadCustomerInfoStarts(isLoadingCustomerInfo,
                        isLoadingOfferings, offersCache, requests)
       IN IF ~settled.ok
          THEN /\ tasks' =
                    Put(tasks, t, WithArg(WithArg(Idle("purchase", "rejected"), "packageId", tasks[t].packageId), "error", settled.error))
               /\ UNCHANGED <<isLoadingOfferings, isLoadingCustomerInfo, requests>>
          ELSE /\ tasks' =
                    Put(Put(tasks, t, WithArg(Awaiting("purchase", "loadCustomerInfo", "none"), "packageId", tasks[t].packageId)), ChildSlot(t, 2), started.task)
               /\ isLoadingOfferings' = started.isLoadingOfferings
               /\ isLoadingCustomerInfo' = started.isLoadingCustomerInfo
               /\ requests' = started.requests
  /\ UNCHANGED <<offersCache, currentSubscription, fetched, customerInfo>>
  /\ UNCHANGED functions
  /\ UNCHANGED library
  /\ UNCHANGED revenueCat

\* purchase resumes after `await this.loadCustomerInfo()`
PurchaseResumes(t) ==
  /\ tasks[t].op = "purchase"
  /\ tasks[t].pc = "loadCustomerInfo"
  /\ Promise(tasks[ChildSlot(t, 2)]) # "pending"
  /\ tasks' =
       Put(tasks, t, WithArg(Idle("purchase", Promise(tasks[ChildSlot(t, 2)])), "packageId", tasks[t].packageId))
  /\ UNCHANGED <<offersCache, currentSubscription, isLoadingOfferings,
                 isLoadingCustomerInfo, requests, fetched, customerInfo>>
  /\ UNCHANGED functions
  /\ UNCHANGED library
  /\ UNCHANGED revenueCat

\* ------------------------------------------------ web adapter: user set-up
Emails == BOOLEAN  \* whether the caller passes an email

\* SDK.Purchases.configure({apiKey, appUserId})
Configured(userId) == [appUserId |-> userId]

\* a set-up that does not look at pendingUserSetup
setRevenueCatUserStarts_Unguarded(userId, purchases, user, pending) ==
  IF user = userId /\ purchases # NullPurchases
  THEN [pc |-> "returned", pendingUserSetup |-> pending]
  ELSE [pc |-> "import", pendingUserSetup |-> userId]

\* setRevenueCatUser up to its first await, with the api key configured: it
\* returns when the user is set up or being set up, otherwise it stores the
\* id in pendingUserSetup and awaits the import of the SDK
setRevenueCatUserStarts(userId, purchases, user, pending) ==
  IF user = userId /\ purchases # NullPurchases
  THEN [pc |-> "returned", pendingUserSetup |-> pending]
  ELSE IF pending = userId
  THEN [pc |-> "returned", pendingUserSetup |-> pending]
  ELSE [pc |-> "import", pendingUserSetup |-> userId]

\* the call of setRevenueCatUser in a slot returns: to its caller when it was
\* called directly, to the awaiting setSubscriptionUserId otherwise
SetUpReturns(task, outcome) ==
  IF task.op = "setRevenueCatUser"
  THEN [task EXCEPT !.pc = "idle", !.outcome = outcome]
  ELSE [task EXCEPT !.pc = "setUserId", !.nested = outcome]

\* setRevenueCatUser(userId, email) is called directly
SetRevenueCatUser(t, userId, email) ==
  /\ Free(t)
  /\ LET started == setRevenueCatUserStarts(userId, purchasesInstance,
                                            rcCurrentUserId, pendingUserSetup)
         call == WithArg(WithArg(Awaiting("setRevenueCatUser", "import", "none"),
                                 "userId", userId), "email", email)
     IN /\ tasks' = Put(tasks, t, IF started.pc = "returned"
                                  THEN SetUpReturns(call, "skipped")
                                  ELSE call)
        /\ pendingUserSetup' = started.pendingUserSetup
  /\ UNCHANGED <<purchasesInstance, rcCurrentUserId>>
  /\ UNCHANGED <<offersCache, currentSubscription, isLoadingOfferings,
                 isLoadingCustomerInfo, requests, fetched, customerInfo>>
  /\ UNCHANGED functions
  /\ UNCHANGED library

\* the import of the SDK settles for the set-up in slot t: when it fails the
\* finally block clears pendingUserSetup; otherwise the SDK is configured for
\* the user, the user id stored, and setAttributes awaited when an email was
\* passed
ImportSettles(t) ==
  /\ tasks[t].pc = "import"
  /\ \/ /\ tasks' = Put(tasks, t, SetUpReturns(tasks[t], "rejected"))
        /\ pendingUserSetup' = NULL
        /\ UNCHANGED <<purchasesInstance, rcCurrentUserId>>
     \/ /\ purchasesInstance' = Configured(tasks[t].userId)
        /\ rcCurrentUserId' = tasks[t].userId
        /\ IF tasks[t].email
           THEN /\ tasks' = Put(tasks, t, [tasks[t] EXCEPT !.pc = "setAttributes"])
                /\ UNCHANGED pendingUserSetup
           ELSE /\ tasks' = Put(tasks, t, SetUpReturns(tasks[t], "resolved"))
                /\ pendingUserSetup' = NULL
  /\ UNCHANGED <<offersCache, currentSubscription, isLoadingOfferings,
                 isLoadingCustomerInfo, requests, fetched, customerInfo>>
  /\ UNCHANGED functions
  /\ UNCHANGED library

\* setAttributes settles, its failure ignored; the finally block clears
\* pendingUserSetup
SetAttributesSettles(t) ==
  /\ tasks[t].pc = "setAttributes"
  /\ tasks' = Put(tasks, t, SetUpReturns(tasks[t], "resolved"))
  /\ pendingUserSetup' = NULL
  /\ UNCHANGED <<purchasesInstance, rcCurrentUserId>>
  /\ UNCHANGED <<offersCache, currentSubscription, isLoadingOfferings,
                 isLoadingCustomerInfo, requests, fetched, customerInfo>>
  /\ UNCHANGED functions
  /\ UNCHANGED library

\* clearRevenueCatUser() is called directly
ClearRevenueCatUser ==
  /\ purchasesInstance' = NullPurchases
  /\ rcCurrentUserId' = NULL
  /\ UNCHANGED pendingUserSetup
  /\ UNCHANGED service
  /\ UNCHANGED functions
  /\ UNCHANGED library

\* setSubscriptionUserId(userId, email) over the web adapter, up to its
\* await: the adapter's setUserId calls setRevenueCatUser for a user and
\* clearRevenueCatUser for none
WebSetSubscriptionUserId(t, userId, email) ==
  /\ Free(t)
  /\ LET call == WithArg(WithArg(Awaiting("setSubscriptionUserId", "import",
                                          "none"),
                                 "userId", userId), "email", email)
         started == setRevenueCatUserStarts(userId, purchasesInstance,
                                            rcCurrentUserId, pendingUserSetup)
     IN IF currentUserId = userId
        THEN /\ tasks' = Put(tasks, t,
                             WithArg(Idle("setSubscriptionUserId", "skipped"),
                                     "userId", userId))
             /\ UNCHANGED <<currentUserId, purchasesInstance, rcCurrentUserId,
                            pendingUserSetup>>
        ELSE /\ currentUserId' = userId
             /\ IF userId # UNDEFINED
                THEN /\ tasks' = Put(tasks, t, IF started.pc = "returned"
                                               THEN SetUpReturns(call, "resolved")
                                               ELSE call)
                     /\ pendingUserSetup' = started.pendingUserSetup
                     /\ UNCHANGED <<purchasesInstance, rcCurrentUserId>>
                ELSE /\ tasks' = Put(tasks, t, SetUpReturns(call, "resolved"))
                     /\ purchasesInstance' = NullPurchases
                     /\ rcCurrentUserId' = NULL
                     /\ UNCHANGED pendingUserSetup
  /\ UNCHANGED <<offersCache, currentSubscription, isLoadingOfferings,
                 isLoadingCustomerInfo, requests, fetched, customerInfo>>
  /\ UNCHANGED <<instance, currentAdapter, userIdChangeListeners,
                 subscriptionRefreshListeners, created, notified>>
  /\ UNCHANGED functions

\* setSubscriptionUserId resumes after `await currentAdapter.setUserId(...)`:
\* a rejection ends the call, otherwise the snapshot is cleared and the
\* listeners are invoked
SetUserIdReturns(t) ==
  /\ tasks[t].pc = "setUserId"
  /\ tasks[t].nested \in {"resolved", "rejected"}
  /\ tasks' = Put(tasks, t,
                  WithArg(Idle("setSubscriptionUserId", tasks[t].nested),
                          "userId", tasks[t].userId))
  /\ IF tasks[t].nested = "rejected"
     THEN UNCHANGED <<currentSubscription, userIdChangeListeners, notified>>
     ELSE \E leaving \in Leaving(userIdChangeListeners) :
            UserIdChanged(currentUserId, leaving)
  /\ UNCHANGED <<offersCache, isLoadingOfferings, isLoadingCustomerInfo,
                 requests, fetched, customerInfo>>
  /\ UNCHANGED <<instance, currentAdapter, currentUserId,
                 subscriptionRefreshListeners, created>>
  /\ UNCHANGED functions
  /\ UNCHANGED revenueCat

\* the SDK instance the adapter's getCustomerInfo asks: none without a user
AskedInstance(purchases, user) ==
  IF user = NULL THEN NullPurchases ELSE purchases

\* loadCustomerInfo() on the singleton's service; the adapter's
\* getCustomerInfo keeps, in `purchases`, the SDK instance it asked
WebLoadCustomerInfo(t) ==
  /\ instance # NullInstance
  /\ Free(t)
  /\ LET started == loadCustomerInfoStarts(isLoadingCustomerInfo,
                       isLoadingOfferings, offersCache, requests) IN
       /\ tasks' = Put(tasks, t,
                       IF started.task.pc = "getCustomerInfo"
                       THEN WithArg(started.task, "purchases",
                                    AskedInstance(purchasesInstance,
                                                  rcCurrentUserId))
                       ELSE started.task)
       /\ isLoadingCustomerInfo' = started.isLoadingCustomerInfo
       /\ isLoadingOfferings' = started.isLoadingOfferings
       /\ requests' = started.requests
  /\ UNCHANGED <<offersCache, currentSubscription, fetched, customerInfo>>
  /\ UNCHANGED functions
  /\ UNCHANGED library
  /\ UNCHANGED revenueCat

\* the active entitlements the provider holds for each user
ProviderActiveOf(userId) ==
  IF userId = "alice" THEN <<ProviderEntitlement("premium", "pm")>>
  ELSE <<ProviderEntitlement("extras", "py")>>

\* what the adapter's getCustomerInfo can answer when it asked `purchases`:
\* empty without a user or when the SDK fails, the user's entitlements
\* otherwise
CustomerInfoResponsesFrom(purchases) ==
  IF purchases = NullPurchases
  THEN {WebGetCustomerInfo([user |-> FALSE]) @@ ("appUserId" :> NULL)}
  ELSE {WebGetCustomerInfo(outcome) @@ ("appUserId" :> purchases.appUserId) :
          outcome \in {[user |-> TRUE, ok |-> FALSE],
                       [user |-> TRUE, ok |-> TRUE,
                        active |-> ProviderActiveOf(purchases.appUserId)]}}

WebUserCustomerInfoSettles(t) ==
  /\ tasks[t].pc = "getCustomerInfo"
  /\ GetCustomerInfoSettlesWith(t, CustomerInfoResponsesFrom(tasks[t].purchases))

\* the library with its catalog loaded from the provider
InitLoaded ==
  /\ instance = 1
  /\ currentAdapter = WebAdapter
  /\ currentUserId = UNDEFINED
  /\ userIdChangeListeners = <<>>
  /\ subscriptionRefreshListeners = <<>>
  /\ created = 1
  /\ notified = NoRound
  /\ RevenueCatInit
  /\ fetched = WebGetOfferings([ok |-> TRUE, offerings |-> ProviderCatalog])
  /\ offersCache = OffersAfterFetch(EmptyCache, fetched)
  /\ currentSubscription = NullSubscription
  /\ isLoadingOfferings = FALSE
  /\ isLoadingCustomerInfo = FALSE
  /\ requests = NoRequests
  /\ customerInfo = NothingFetched
  /\ tasks = [t \in Slots |-> Idle("none", "none")]
  /\ packages = <<>>
  /\ current = NoCurrent
  /\ called = "initializeSubscription"
  /\ calls = 0
  /\ levels = EmptyMap
  /\ upgrades = <<>>
  /\ arg = NoArg
  /\ result = NoResult

\* the web adapter's set-up of users, called directly
NextSetup ==
  \/ ClearRevenueCatUser
  \/ \E t \in Slots :
       \/ \E userId \in UserIds \ {UNDEFINED} :
            \E email \in Emails : SetRevenueCatUser(t, userId, email)
       \/ ImportSettles(t)
       \/ SetAttributesSettles(t)

SpecSetup == InitReady /\ [][NextSetup]_vars

\* users log in and out through setSubscriptionUserId while customer info
\* is loaded
NextLogin ==
  \E t \in Slots :
    \/ \E userId \in UserIds :
         \E email \in Emails : WebSetSubscriptionUserId(t, userId, email)
    \/ ImportSettles(t)
    \/ SetAttributesSettles(t)
    \/ SetUserIdReturns(t)
    \/ WebLoadCustomerInfo(t)
    \/ WebUserCustomerInfoSettles(t)

SpecLogin == InitLoaded /\ [][NextLogin]_vars

\* an adapter call rejects, or resolves with nothing on sale and nothing active
EitherWay ==
  {Rejection,
   [ok |-> TRUE, all |-> <<>>, current |-> MonthlyOffering, active |-> <<>>]}

\* refreshSubscription over an adapter whose calls may reject, with a
\* listener for user-id changes registered and listeners for refreshes
\* registering, until resetSubscription
InitRefresh ==
  /\ instance = 1
  /\ currentAdapter = WebAdapter
  /\ currentUserId = UNDEFINED
  /\ userIdChangeListeners = <<1>>
  /\ subscriptionRefreshListeners = <<>>
  /\ created = 1
  /\ notified = NoRound
  /\ RevenueCatInit
  /\ NewService
  /\ tasks = [t \in Slots |-> Idle("none", "none")]
  /\ packages = <<>>
  /\ current = NoCurrent
  /\ called = "initializeSubscription"
  /\ calls = 0
  /\ levels = EmptyMap
  /\ upgrades = <<>>
  /\ arg = NoArg
  /\ result = NoResult

NextRefresh ==
  \/ ResetSubscription
  \/ \E l \in Listeners : OnSubscriptionRefresh(l)
  \/ \E t \in Slots :
       \/ RefreshSubscription(t)
       \/ RefreshResumes(t)
       \/ OrphanSettles(t)
       \/ GetOfferingsSettlesWith(t, EitherWay)
       \/ LoadCustomerInfoResumes(t)
       \/ GetCustomerInfoSettlesWith(t, EitherWay)

SpecRefresh == InitRefresh /\ [][NextRefresh]_vars

\* ----------------------------------------------------- useSubscriptions
OfferIds == {"default", "premium", "missing"}

\* `null`, as getOffer returns it and useState holds it
NullOffer == [null |-> TRUE]

\* getOffer: `this.offersCache.get(offerId) ?? null`
getOffer(cache, offerId) ==
  IF CacheHas(cache, offerId)
  THEN cache[CHOOSE i \in DOMAIN cache : cache[i].key = offerId].offer
  ELSE NullOffer

\* a loadData call of a useSubscriptions(offerId) hook, with the state the
\* hook holds: offer, isLoading, and whether error is set
HookCall(task, offerId, offer, isLoading, error) ==
  task @@ [offerId |-> offerId, offer |-> offer, isLoading |-> isLoading,
           error |-> error]

\* loadData of useSubscriptions(offerId), as the effect calls it on mount, up
\* to its await: a cached offer is used as it is; otherwise loadOfferings()
\* is called and awaited unless hasLoadedOfferings(), and getOffer is asked
UseSubscriptions(t, offerId) ==
  /\ Free(t)
  /\ LET cachedOffer == getOffer(offersCache, offerId)
         started == loadOfferingsStarts(isLoadingOfferings, requests)
     IN IF instance = NullInstance
        THEN /\ tasks' = Put(tasks, t,
                             HookCall(Idle("useSubscriptions.loadData", "resolved"),
                                      offerId, NullOffer, FALSE, TRUE))
             /\ UNCHANGED <<isLoadingOfferings, requests>>
        ELSE IF cachedOffer # NullOffer
        THEN /\ tasks' = Put(tasks, t,
                             HookCall(Idle("useSubscriptions.loadData", "resolved"),
                                      offerId, cachedOffer, FALSE, FALSE))
             /\ UNCHANGED <<isLoadingOfferings, requests>>
        ELSE IF ~hasLoadedOfferings(offersCache)
        THEN /\ tasks' =
                  Put(Put(tasks, t,
                          HookCall(Awaiting("useSubscriptions.loadData",
                                            "await loadOfferings", "none"),
                                   offerId, NullOffer, TRUE, FALSE)),
                      ChildSlot(t, 1), started.task)
             /\ isLoadingOfferings' = started.isLoadingOfferings
             /\ requests' = started.requests
        ELSE /\ tasks' = Put(tasks, t,
                             HookCall(Idle("useSubscriptions.loadData", "resolved"),
                                      offerId, getOffer(offersCache, offerId),
                                      FALSE, FALSE))
             /\ UNCHANGED <<isLoadingOfferings, requests>>
  /\ UNCHANGED <<offersCache, currentSubscription, isLoadingCustomerInfo,
                 fetched, customerInfo>>
  /\ UNCHANGED functions
  /\ UNCHANGED library
  /\ UNCHANGED revenueCat

\* loadData resumes after `await service.loadOfferings()`: the offer is read
\* from the cache, or the error is set when the load rejected; the finally
\* block sets isLoading to false
LoadDataResumes(t) ==
  /\ tasks[t].op = "useSubscriptions.loadData"
  /\ tasks[t].pc = "await loadOfferings"
  /\ Promise(tasks[ChildSlot(t, 1)]) # "pending"
  /\ tasks' =
       Put(tasks, t,
           IF Promise(tasks[ChildSlot(t, 1)]) = "rejected"
           THEN HookCall(Idle("useSubscriptions.loadData", "resolved"),
                         tasks[t].offerId, tasks[t].offer, FALSE, TRUE)
           ELSE HookCall(Idle("useSubscriptions.loadData", "resolved"),
                         tasks[t].offerId,
                         getOffer(offersCache, tasks[t].offerId), FALSE, FALSE))
  /\ UNCHANGED <<offersCache, currentSubscription, isLoadingOfferings,
                 isLoadingCustomerInfo, requests, fetched, customerInfo>>
  /\ UNCHANGED functions
  /\ UNCHANGED library
  /\ UNCHANGED revenueCat

\* hooks mount while customer info is loaded
NextHooks ==
  \E t \in Slots :
    \/ \E offerId \in OfferIds : UseSubscriptions(t, offerId)
    \/ LoadDataResumes(t)
    \/ InstanceLoadCustomerInfo(t)
    \/ WebGetOfferingsSettles(t)
    \/ WebNestedGetOfferingsSettles(t)
    \/ LoadCustomerInfoResumes(t)
    \/ WebGetCustomerInfoSettles(t)

SpecHooks == InitReady /\ [][NextHooks]_vars

\* the singleton's life cycle, with refreshSubscription
NextSingleton ==
  \/ InitializeSubscription(WebAdapter)
  \/ ResetSubscription
  \/ GetSubscriptionInstance
  \/ IsSubscriptionInitialized
  \/ \E t \in Slots :
       \/ RefreshSubscription(t)
       \/ OrphanSettles(t)
       \/ RefreshResumes(t)

SpecSingleton == InitLibrary /\ [][NextSingleton]_vars

\* the user changes while customer info is loaded, and listeners subscribe
NextUser ==
  \/ \E l \in Listeners : OnSubscriptionUserIdChange(l)
  \/ \E t \in Slots :
       \/ \E userId \in UserIds : SetSubscriptionUserId(t, userId)
       \/ SetUserIdSettles(t)
       \/ InstanceLoadCustomerInfo(t)
       \/ WebNestedGetOfferingsSettles(t)
       \/ LoadCustomerInfoResumes(t)
       \/ WebGetCustomerInfoSettles(t)

SpecUser == InitReady /\ [][NextUser]_vars

\* listeners come and go between the notification rounds, while the adapter
\* has not answered yet
NextListeners ==
  \/ \E l \in Listeners :
       \/ OnSubscriptionUserIdChange(l)
       \/ UnsubscribeUserIdChange(l)
       \/ OnSubscriptionRefresh(l)
       \/ UnsubscribeRefresh(l)
  \/ \E t \in Slots :
       \/ \E userId \in UserIds : SetSubscriptionUserId(t, userId)
       \/ SetUserIdSettles(t)
       \/ RefreshSubscription(t)
       \/ RefreshResumes(t)

SpecListeners == InitReady /\ [][NextListeners]_vars

\* the service of the singleton over the web adapter
NextWeb ==
  \E t \in Slots :
    \/ InstanceLoadOfferings(t)
    \/ InstanceLoadCustomerInfo(t)
    \/ WebGetOfferingsSettles(t)
    \/ WebNestedGetOfferingsSettles(t)
    \/ LoadCustomerInfoResumes(t)
    \/ WebGetCustomerInfoSettles(t)
    \/ RefreshSubscription(t)
    \/ RefreshResumes(t)
    \/ \E packageId \in PurchaseIds : Purchase(t, packageId)
    \/ PurchaseSettles(t)
    \/ PurchaseResumes(t)

SpecWeb == InitReady /\ [][NextWeb]_vars



\* ------------------------------------------------------------ the claims
\* vocabulary of the claims, stated without the functions under test
Paid(p) == p.product # NoProduct

IdSeq(pkgs) == [i \in DOMAIN pkgs |-> pkgs[i].packageId]

Absent(v) == v = NULL \/ v = UNDEFINED \/ v = ""

SuppliedPackageId(cur) ==
  IF cur.kind \in {"string", "object"} /\ ~Absent(cur.packageId)
  THEN cur.packageId ELSE NULL

SuppliedProductId(cur) ==
  IF cur.kind = "object" /\ ~Absent(cur.productId) THEN cur.productId ELSE NULL

Least(S) == CHOOSE i \in S : \A j \in S : i <= j

\* the position of the package `cur` designates: the package carrying the
\* supplied package id, else the first package whose product carries the
\* supplied product id, else 0
ResolvedPosition(cur, pkgs) ==
  LET byPackage == {i \in DOMAIN pkgs : pkgs[i].packageId = SuppliedPackageId(cur)}
      byProduct == {i \in DOMAIN pkgs :
                      Paid(pkgs[i]) /\ pkgs[i].product.productId = SuppliedProductId(cur)}
  IN  IF byPackage # {} THEN Least(byPackage)
      ELSE IF byProduct # {} THEN Least(byProduct)
      ELSE 0

Called(f) == called = f

\* C1: when `current` resolves to a package C that has a product, the result
\* is exactly the ids, in input order, of the packages p other than C that
\* have a product, a period rank >= C's and a level >= C's (levels by
\* calculatePackageLevels over the whole list); so no returned package has a
\* shorter period or a lower level than C, and neither C nor a product-less
\* package is returned.
C1_UpgradesFromPaid ==
  Called("findUpgradeablePackages") =>
    LET c == ResolvedPosition(current, packages) IN
    (c > 0 /\ Paid(packages[c])) =>
      LET C     == packages[c]
          level == calculatePackageLevels(packages, StableOrder(Len(packages)))
          Eligible(p) ==
            /\ p.packageId # C.packageId
            /\ Paid(p)
            /\ PERIOD_RANKS[p.product.period] >= PERIOD_RANKS[C.product.period]
            /\ level[p.packageId] >= level[C.packageId]
      IN  /\ upgrades = IdSeq(SelectSeq(packages, Eligible))
          /\ \A k \in DOMAIN upgrades : \A i \in DOMAIN packages :
               packages[i].packageId = upgrades[k] =>
                 /\ i # c
                 /\ Paid(packages[i])
                 /\ PERIOD_RANKS[packages[i].product.period]
                      >= PERIOD_RANKS[C.product.period]
                 /\ level[upgrades[k]] >= level[C.packageId]

\* C1 witness: a paid current package, one package kept and one filtered out
C1_Witness ==
  /\ Called("findUpgradeablePackages")
  /\ Len(packages) = 3
  /\ \A i \in DOMAIN packages : Paid(packages[i])
  /\ ResolvedPosition(current, packages) = 2
  /\ Len(upgrades) = 1

\* C2: whenever `current` does not resolve to a package of the list (null,
\* undefined, no package id and no product id, empty strings counting as
\* absent, or ids that match no package) the result is the ids of all
\* packages in input order.
C2_FailOpen ==
  (Called("findUpgradeablePackages") /\ ResolvedPosition(current, packages) = 0)
    => upgrades = IdSeq(packages)

\* C2 witness: ids that match nothing, on a list with a free and a paid package
C2_Witness ==
  /\ Called("findUpgradeablePackages")
  /\ current.kind = "object"
  /\ current.packageId = UnknownPackageId
  /\ current.productId = UnknownProductId
  /\ Len(packages) = 3
  /\ ~Paid(packages[1]) /\ Paid(packages[2])
  /\ upgrades = IdSeq(packages)

\* C3: when `current` resolves to a package without a product, the result is
\* exactly the ids, in input order, of the packages that have a product, and
\* no product-less package is in it.
C3_UpgradesFromFree ==
  Called("findUpgradeablePackages") =>
    LET c == ResolvedPosition(current, packages) IN
    (c > 0 /\ ~Paid(packages[c])) =>
      /\ upgrades = IdSeq(SelectSeq(packages, Paid))
      /\ \A i \in DOMAIN packages :
           ~Paid(packages[i]) =>
             \A k \in DOMAIN upgrades : upgrades[k] # packages[i].packageId

\* C3 witness: the free tier is current, next to a dearer long-period and a
\* cheaper short-period paid package
C3_Witness ==
  /\ Called("findUpgradeablePackages")
  /\ Len(packages) = 3
  /\ ResolvedPosition(current, packages) = 2
  /\ ~Paid(packages[2])
  /\ Paid(packages[1]) /\ packages[1].product.period = "yearly"
  /\ packages[1].product.price = 1
  /\ Paid(packages[3]) /\ packages[3].product.period = "weekly"
  /\ packages[3].product.price = 0
  /\ upgrades = <<"p1", "p3">>

\* the argument that names a package by its id alone
ByPackageId(id) == [kind |-> "string", packageId |-> id, productId |-> UNDEFINED]

\* C4: the current package is looked up by package id first: a supplied
\* package id that is the id of a listed package decides, whatever product id
\* comes with it; otherwise the first package in input order whose product id
\* is the supplied one decides; and the call then answers as it does for that
\* package's own package id.
C4_PackageIdFirst ==
  Called("findUpgradeablePackages") =>
    LET c == ResolvedPosition(current, packages) IN
    c > 0 =>
      /\ CurrentPkg(current, packages) = c
      /\ upgrades = findUpgradeablePackages(ByPackageId(packages[c].packageId),
                                            packages, StableOrder(Len(packages)))

\* C4 witness: the package id and the product id name different packages, and
\* the two would be answered differently
C4_Witness ==
  /\ Called("findUpgradeablePackages")
  /\ current.kind = "object"
  /\ current.packageId = "p2"
  /\ current.productId = "x"
  /\ Len(packages) = 3
  /\ \A i \in DOMAIN packages : Paid(packages[i])
  /\ upgrades # findUpgradeablePackages(ByPackageId("p1"), packages,
                                        StableOrder(Len(packages)))
  /\ upgrades = findUpgradeablePackages(ByPackageId("p2"), packages,
                                        StableOrder(Len(packages)))

\* the packages of the list that share a product period with p
PeriodGroup(pkgs, p) ==
  {i \in DOMAIN pkgs : Paid(pkgs[i]) /\ pkgs[i].product.period = p.product.period}

\* C5: inside a period group the levels rank the prices densely: a lower
\* price has a lower level, equal prices have equal levels, the cheapest
\* package has level 1 and the levels of the group are exactly 1..k for k
\* distinct prices.
C5_DenseRanking ==
  Called("calculatePackageLevels") =>
    \A i \in DOMAIN packages :
      Paid(packages[i]) =>
        LET G        == PeriodGroup(packages, packages[i])
            price(j) == packages[j].product.price
            level(j) == levels[packages[j].packageId]
        IN  /\ \A j \in G :
                 /\ price(i) < price(j) => level(i) < level(j)
                 /\ price(i) = price(j) => level(i) = level(j)
            /\ (\A j \in G : price(i) <= price(j)) => level(i) = 1
            /\ {level(j) : j \in G} = 1..Cardinality({price(j) : j \in G})

\* C5 witness: a group of three with two equal prices and a dearer one
C5_Witness ==
  /\ Called("calculatePackageLevels")
  /\ Len(packages) = 3
  /\ \A i \in DOMAIN packages :
       Paid(packages[i]) /\ packages[i].product.period = "monthly"
  /\ packages[1].product.price = 2
  /\ packages[2].product.price = 1
  /\ packages[3].product.price = 1
  /\ levels["p1"] = 2 /\ levels["p2"] = 1 /\ levels["p3"] = 1

\* C6: a package without a product has level 0, a package with a product has
\* a level of at least 1.
C6_FreeZeroPaidPositive ==
  Called("calculatePackageLevels") =>
    \A i \in DOMAIN packages :
      /\ ~Paid(packages[i]) => levels[packages[i].packageId] = 0
      /\ Paid(packages[i]) => levels[packages[i].packageId] >= 1

\* C6 witness: a free package next to a paid package whose price is 0
C6_Witness ==
  /\ Called("calculatePackageLevels")
  /\ Len(packages) = 2
  /\ ~Paid(packages[1])
  /\ Paid(packages[2]) /\ packages[2].product.price = 0
  /\ levels["p1"] = 0 /\ levels["p2"] = 1

\* C7: the returned map has an entry for the id of every input package and
\* for no other id; the empty list gives the empty map.
C7_EveryPackageHasALevel ==
  Called("calculatePackageLevels") =>
    DOMAIN levels = {packages[i].packageId : i \in DOMAIN packages}

\* C7 witness: free and paid packages of two periods, all in the map
C7_Witness ==
  /\ Called("calculatePackageLevels")
  /\ Len(packages) = 3
  /\ ~Paid(packages[2])
  /\ Paid(packages[1]) /\ Paid(packages[3])
  /\ packages[1].product.period # packages[3].product.period
  /\ DOMAIN levels = {"p1", "p2", "p3"}

\* C8: the level of a paid package depends on its own period group only: it
\* is the level the package gets when the list is cut down to the packages of
\* its period, so packages of other periods and product-less packages do not
\* bear on it.
C8_LevelIsGroupRelative ==
  Called("calculatePackageLevels") =>
    \A i \in DOMAIN packages :
      Paid(packages[i]) =>
        LET SamePeriod(q) ==
              Paid(q) /\ q.product.period = packages[i].product.period
            group == SelectSeq(packages, SamePeriod)
        IN  levels[packages[i].packageId] =
              calculatePackageLevels(group, StableOrder(Len(group)))
                [packages[i].packageId]

\* C8 witness: a dear monthly package stays at level 1 next to a cheaper
\* yearly package and a free one
C8_Witness ==
  /\ Called("calculatePackageLevels")
  /\ Len(packages) = 3
  /\ Paid(packages[1]) /\ packages[1].product.period = "yearly"
  /\ packages[1].product.price = 0
  /\ ~Paid(packages[2])
  /\ Paid(packages[3]) /\ packages[3].product.period = "monthly"
  /\ packages[3].product.price = 2
  /\ levels["p3"] = 1

\* C9: a call leaves the input list as it was, and a second call on the same
\* list returns the map the first call returned, whatever order the sort
\* leaves equal prices in.
C9_DeterministicAndReadOnly ==
  [][ (called' = "calculatePackageLevels" /\ calls' = calls + 1) =>
        /\ packages' = packages
        /\ calls >= 1 => levels' = levels ]_vars

\* C9 witness: two calls were made on a list in which two packages of one
\* period share a price
C9_Witness ==
  /\ Called("calculatePackageLevels")
  /\ calls = 2
  /\ Len(packages) = 3
  /\ Paid(packages[1]) /\ Paid(packages[3])
  /\ packages[1].product = packages[3].product
  /\ levels["p1"] = levels["p3"]

\* C10: for the documented catalog, in any input order, the levels are
\* free 0, basic_monthly 1, pro_monthly 2, basic_yearly 1, pro_yearly 2.
C10_DocumentedExample ==
  Called("calculatePackageLevels") =>
    levels = [id \in {"free", "basic_monthly", "pro_monthly", "basic_yearly",
                      "pro_yearly"} |->
                CASE id = "free" -> 0
                  [] id \in {"basic_monthly", "basic_yearly"} -> 1
                  [] OTHER -> 2]

\* C10 witness: the catalog with the dearest package first and the free tier
\* last
C10_Witness ==
  /\ Called("calculatePackageLevels")
  /\ packages[1].packageId = "pro_yearly"
  /\ packages[5].packageId = "free"
  /\ levels["pro_yearly"] = 2 /\ levels["free"] = 0

\* C11: getPackageLevel(id, L) is the value calculatePackageLevels(L) holds
\* for id, or 0 when id names no package of L; addLevelsToPackages(L) has the
\* length and the package order of L and its i-th element carries the i-th
\* package with the level the map holds for it.
C11_HelpersAgreeWithMap ==
  LET m == calculatePackageLevels(packages, StableOrder(Len(packages))) IN
  /\ Called("getPackageLevel") =>
       result = (IF \E i \in DOMAIN packages : packages[i].packageId = arg
                 THEN m[arg] ELSE 0)
  /\ Called("addLevelsToPackages") =>
       /\ Len(result) = Len(packages)
       /\ \A i \in DOMAIN packages :
            /\ result[i].packageId = packages[i].packageId
            /\ result[i].product = packages[i].product
            /\ result[i].level = m[packages[i].packageId]

\* C11 witness: the level of an id that is not listed was asked for, on a list
\* that holds paid packages
C11_Witness ==
  /\ Called("getPackageLevel")
  /\ arg = UnknownPackageId
  /\ Len(packages) = 3
  /\ \A i \in DOMAIN packages : Paid(packages[i])
  /\ result = 0

\* ------------------------------------------------------ durations, as read
\* the string with every character in upper case, and in lower case
RECURSIVE UpperCased(_)
UpperCased(chars) ==
  IF chars = <<>> THEN <<>>
  ELSE UpperCaseOf(Head(chars)) \o UpperCased(Tail(chars))

LowerCased(chars) == [i \in DOMAIN chars |-> LowerCaseOf(chars[i])]

\* the string has the form P<n><unit> once in upper case
HasTableForm(chars) ==
  /\ Len(chars) >= 3
  /\ chars[1] \in {"P", "p"}
  /\ chars[Len(chars)] \in {"D", "d", "W", "w", "M", "m", "Y", "y"}
  /\ \A i \in 2..(Len(chars) - 1) :
       chars[i] \in {"0", "1", "2", "3", "4", "5", "6", "7", "8", "9"}

UnitOf(chars) == LET u == chars[Len(chars)] IN
  CASE u \in {"D", "d"} -> "D" [] u \in {"W", "w"} -> "W"
    [] u \in {"M", "m"} -> "M" [] u \in {"Y", "y"} -> "Y"

\* the numeral <n> without its leading zeros
RECURSIVE StripZeros(_)
StripZeros(run) ==
  IF Len(run) > 1 /\ Head(run) = "0" THEN StripZeros(Tail(run)) ELSE run

NumeralOf(chars) == StripZeros(SubSeq(chars, 2, Len(chars) - 1))

Within(num, lo, hi) == \E n \in lo..hi : num = Decimal(n)
AtLeast365(num)     == Len(num) >= 4 \/ Within(num, 365, 999)

\* the row of the classification table for <n><unit>, "none" when the table
\* has no row for it
TableRow(unit, num) ==
  CASE unit = "D" ->
         IF Within(num, 7, 7) THEN "weekly"
         ELSE IF Within(num, 28, 31) THEN "monthly"
         ELSE IF Within(num, 84, 93) THEN "quarterly"
         ELSE IF AtLeast365(num) THEN "yearly" ELSE "none"
    [] unit = "W" ->
         IF Within(num, 1, 1) THEN "weekly"
         ELSE IF Within(num, 4, 5) THEN "monthly"
         ELSE IF Within(num, 13, 13) THEN "quarterly"
         ELSE IF Within(num, 52, 52) THEN "yearly" ELSE "none"
    [] unit = "M" ->
         IF Within(num, 1, 1) THEN "monthly"
         ELSE IF Within(num, 3, 3) \/ Within(num, 6, 6) THEN "quarterly"
         ELSE IF Within(num, 12, 12) THEN "yearly" ELSE "none"
    [] unit = "Y" ->
         IF num # <<"0">> THEN "yearly" ELSE "none"

CoveredByTable(chars) ==
  HasTableForm(chars) /\ TableRow(UnitOf(chars), NumeralOf(chars)) # "none"

IsString(d) == d.type = "string"

\* C12: parseISO8601Period is total: for null, undefined and every string it
\* returns one of the five periods and never throws.
C12_ParseIsTotal ==
  Called("parseISO8601Period") => result \in SubscriptionPeriod

\* C12 witness: a duration with the longest run of digits was parsed
C12_Witness ==
  /\ Called("parseISO8601Period")
  /\ IsString(arg)
  /\ arg.chars = <<"P">> \o Nines(MaxDigits) \o <<"D">>
  /\ result = "yearly"

\* C13: null, undefined and the empty string give lifetime; a string that
\* uppercases to P<n><unit> gives the period of its row of the table (D: 7
\* weekly, 28..31 monthly, 84..93 quarterly, 365 or more yearly; W: 1 weekly,
\* 4 or 5 monthly, 13 quarterly, 52 yearly; M: 1 monthly, 3 or 6 quarterly,
\* 12 yearly; Y: yearly for every positive n); the six exact-match strings get
\* what the general pattern gives them.
C13_ClassificationTable ==
  Called("parseISO8601Period") =>
    /\ (~IsString(arg) \/ arg.chars = <<>>) => result = "lifetime"
    /\ (IsString(arg) /\ CoveredByTable(arg.chars)) =>
         result = TableRow(UnitOf(arg.chars), NumeralOf(arg.chars))
    /\ (IsString(arg) /\ UpperCased(arg.chars) \in {P1W, P7D, P1M, P3M, P1Y, P12M})
         => result = PatternPeriod(UpperCased(arg.chars))

\* C13 witness: a lower-case day count with a leading zero, in the quarterly
\* row, was parsed
C13_Witness ==
  /\ Called("parseISO8601Period")
  /\ IsString(arg)
  /\ arg.chars = <<"p", "0", "9", "3", "d">>
  /\ result = "quarterly"

\* C14: every non-empty string that the classification table does not cover
\* is classified as monthly.
C14_UncoveredIsMonthly ==
  (Called("parseISO8601Period") /\ IsString(arg) /\ arg.chars # <<>>
     /\ ~CoveredByTable(arg.chars))
  => result = "monthly"

\* What holds instead: a non-empty string that does not have the form
\* P<n><unit>, or has it with unit D, W or M and a value outside the table,
\* is classified as monthly, and P<n>Y with n = 0 is classified as yearly.
UncoveredIsMonthlyButZeroYears ==
  (Called("parseISO8601Period") /\ IsString(arg) /\ arg.chars # <<>>
     /\ ~CoveredByTable(arg.chars))
  => IF HasTableForm(arg.chars) /\ UnitOf(arg.chars) = "Y"
     THEN result = "yearly"
     ELSE result = "monthly"

\* C15: parseISO8601Period gives a string, its upper-case form and its
\* lower-case form the same period.
C15_CaseInsensitive ==
  (Called("parseISO8601Period") /\ IsString(arg)) =>
    /\ result = parseISO8601Period(Str(UpperCased(arg.chars)))
    /\ result = parseISO8601Period(Str(LowerCased(arg.chars)))

\* C15 witness: a mixed-case duration of the table was parsed
C15_Witness ==
  /\ Called("parseISO8601Period")
  /\ IsString(arg)
  /\ arg.chars = <<"p", "5", "2", "W">>
  /\ result = "yearly"

\* ------------------------------------------------------- periods, as read
\* the periods from the shortest to the longest
ShortestFirst == <<"weekly", "monthly", "quarterly", "yearly", "lifetime">>

\* the place of a period in that order
Place(p) == CHOOSE i \in DOMAIN ShortestFirst : ShortestFirst[i] = p

\* C16: getPeriodRank maps the five periods one-to-one onto 1..5, increasing
\* along weekly, monthly, quarterly, yearly, lifetime; the table inside
\* findUpgradeablePackages and the order of ALL_PERIODS agree with it.
C16_RankTable ==
  /\ \A p, q \in SubscriptionPeriod :
       getPeriodRank(p) = getPeriodRank(q) => p = q
  /\ {getPeriodRank(p) : p \in SubscriptionPeriod} = 1..5
  /\ \A i, j \in DOMAIN ShortestFirst :
       i < j => getPeriodRank(ShortestFirst[i]) < getPeriodRank(ShortestFirst[j])
  /\ \A p \in SubscriptionPeriod : periodRanks[p] = getPeriodRank(p)
  /\ DOMAIN periodRanks = SubscriptionPeriod
  /\ Len(ALL_PERIODS) = 5
  /\ \A i \in DOMAIN ALL_PERIODS : getPeriodRank(ALL_PERIODS[i]) = i
  /\ Called("getPeriodRank") => \A x \in 1..3 : result[x] = Place(arg[x])

\* C16 witness: the ranks of weekly, quarterly and lifetime were asked for
C16_Witness ==
  /\ Called("getPeriodRank")
  /\ arg = <<"weekly", "quarterly", "lifetime">>
  /\ result = <<1, 3, 5>>

\* C17: comparePeriods(a, b) is rank(a) - rank(b), negative, zero or positive
\* exactly when a is shorter than, equal to or longer than b, so that
\* comparePeriods(a, b) = -comparePeriods(b, a); isPeriodGreaterOrEqual(a, b)
\* is true exactly when comparePeriods(a, b) >= 0, and is reflexive,
\* transitive and total.
C17_CompareIsRankOrder ==
  /\ Called("comparePeriods") =>
       \A x, y \in 1..3 :
         /\ result[x][y] = Place(arg[x]) - Place(arg[y])
         /\ result[x][y] < 0 <=> Place(arg[x]) < Place(arg[y])
         /\ result[x][y] = 0 <=> arg[x] = arg[y]
         /\ result[x][y] > 0 <=> Place(arg[x]) > Place(arg[y])
         /\ result[x][y] = 0 - result[y][x]
  /\ Called("isPeriodGreaterOrEqual") =>
       /\ \A x, y \in 1..3 :
            /\ result[x][y] = (comparePeriods(arg[x], arg[y]) >= 0)
            /\ result[x][y] \/ result[y][x]
       /\ \A x \in 1..3 : result[x][x]
       /\ (result[1][2] /\ result[2][3]) => result[1][3]

\* C17 witness: lifetime, yearly and weekly were compared with one another
C17_Witness ==
  /\ Called("isPeriodGreaterOrEqual")
  /\ arg = <<"lifetime", "yearly", "weekly">>
  /\ result[1][2] /\ result[2][3] /\ result[1][3]
  /\ ~result[3][1]

\* ------------------------------------------------------- service, as read
\* the call is suspended on adapter.getOfferings, made by loadOfferings
\* directly or through loadCustomerInfo
AwaitsGetOfferings(task) ==
  \/ task.pc = "getOfferings"
  \/ task.pc = "loadOfferings" /\ task.nested = "getOfferings"

\* a loadCustomerInfo call has started and not returned
InLoadCustomerInfo(task) == task.op = "loadCustomerInfo" /\ task.pc # "idle"

\* this step is a call of the method by caller t
CalledNow(t, op) ==
  tasks[t].pc = "idle" /\ tasks'[t] # tasks[t] /\ tasks'[t].op = op

\* call t returns `outcome` in this step and the calls in flight stay where
\* they are
ReturnsAtOnce(t, op, outcome) ==
  /\ tasks'[t] = Idle(op, outcome)
  /\ \A u \in DOMAIN tasks \ {t} : tasks[u].pc # "idle" => tasks'[u] = tasks[u]

\* this step is the settling of the getOfferings request that call t awaits
FetchResolvesNow(t) ==
  /\ AwaitsGetOfferings(tasks[t])
  /\ tasks'[t].outcome = "resolved" \/ tasks'[t].nested = "resolved"
FetchRejectsNow(t) ==
  /\ AwaitsGetOfferings(tasks[t])
  /\ tasks'[t].outcome = "rejected" \/ tasks'[t].nested = "rejected"

KeysOf(cache)      == {cache[i].key : i \in DOMAIN cache}
OfferAt(cache, k)  == cache[CHOOSE i \in DOMAIN cache : cache[i].key = k].offer
AllKeys(response)  == {response.all[i].key : i \in DOMAIN response.all}
CurrentBecomesDefault(response) ==
  response.current # NullOffering /\ "default" \notin AllKeys(response)

\* the cache a completed reload leaves for what was fetched; the empty cache
\* when nothing was fetched yet
CompleteResult(response) ==
  IF ~response.ok THEN <<>>
  ELSE [i \in DOMAIN response.all |->
          [key   |-> response.all[i].key,
           offer |-> parseOffering(response.all[i].key, response.all[i].offering)]]
       \o (IF CurrentBecomesDefault(response)
           THEN <<[key   |-> "default",
                   offer |-> parseOffering("default", response.current)]>>
           ELSE <<>>)

\* C18: a loadOfferings / loadCustomerInfo call made while a call for the same
\* resource is in flight returns at once, without a request to the adapter,
\* without queuing and without raising, so that at most one getOfferings and
\* at most one getCustomerInfo request of the service is outstanding; a call
\* made while only the other resource is loading is not turned into a no-op.
C18_OneLoadPerResource ==
  /\ [](/\ requests.getOfferings <= 1
        /\ requests.getCustomerInfo <= 1
        /\ requests.getOfferings =
             Cardinality({t \in DOMAIN tasks : AwaitsGetOfferings(tasks[t])})
        /\ requests.getCustomerInfo =
             Cardinality({t \in DOMAIN tasks : tasks[t].pc = "getCustomerInfo"}))
  /\ [][\A t \in DOMAIN tasks :
          /\ (CalledNow(t, "loadOfferings")
                /\ \E u \in DOMAIN tasks : AwaitsGetOfferings(tasks[u]))
             => /\ ReturnsAtOnce(t, "loadOfferings", "skipped")
                /\ UNCHANGED <<requests, offersCache, currentSubscription,
                               isLoadingOfferings, isLoadingCustomerInfo>>
          /\ (CalledNow(t, "loadCustomerInfo")
                /\ \E u \in DOMAIN tasks : InLoadCustomerInfo(tasks[u]))
             => /\ ReturnsAtOnce(t, "loadCustomerInfo", "skipped")
                /\ UNCHANGED <<requests, offersCache, currentSubscription,
                               isLoadingOfferings, isLoadingCustomerInfo>>
          /\ (CalledNow(t, "loadOfferings")
                /\ ~\E u \in DOMAIN tasks : AwaitsGetOfferings(tasks[u]))
             => /\ tasks'[t].pc = "getOfferings"
                /\ requests'.getOfferings = 1
          /\ (CalledNow(t, "loadCustomerInfo")
                /\ ~\E u \in DOMAIN tasks : InLoadCustomerInfo(tasks[u]))
             => /\ InLoadCustomerInfo(tasks'[t])
                /\ isLoadingCustomerInfo'
     ]_vars

\* C18 witness: a second loadOfferings call has returned at once while the
\* first awaits the adapter, and a loadCustomerInfo call made during that
\* load is under way
C18_Witness ==
  \E t, u \in DOMAIN tasks :
    /\ tasks[t].pc = "getOfferings"
    /\ tasks[u] = Awaiting("loadCustomerInfo", "getCustomerInfo", "none")
    /\ requests = [getOfferings |-> 1, getCustomerInfo |-> 1]

\* C19: when a loadOfferings call that fetched completes successfully, the
\* cached offer ids are exactly the keys of the fetched `all` map, plus
\* 'default' when `current` is non-null and `all` has no key 'default'; every
\* key of `all` is bound to its own offering, 'default' otherwise to
\* `current`; nothing of an earlier load is left.
C19_ReloadReplaces ==
  [][\A t \in DOMAIN tasks :
       FetchResolvesNow(t) =>
         /\ KeysOf(offersCache') =
              AllKeys(fetched') \cup (IF CurrentBecomesDefault(fetched')
                                      THEN {"default"} ELSE {})
         /\ Len(offersCache') = Cardinality(KeysOf(offersCache'))
         /\ \A i \in DOMAIN fetched'.all :
              OfferAt(offersCache', fetched'.all[i].key) =
                parseOffering(fetched'.all[i].key, fetched'.all[i].offering)
         /\ CurrentBecomesDefault(fetched') =>
              OfferAt(offersCache', "default") =
                parseOffering("default", fetched'.current)
    ]_vars

\* C19 witness: a reload has completed whose `all` map has its own 'default'
\* offer and whose `current` is another offering; the cache holds the former
C19_Witness ==
  /\ \E t \in DOMAIN tasks : tasks[t] = Idle("loadOfferings", "resolved")
  /\ fetched.ok
  /\ fetched.all = <<[key |-> "default", offering |-> MonthlyOffering]>>
  /\ fetched.current = YearlyOffering
  /\ offersCache =
       <<[key |-> "default", offer |-> parseOffering("default", MonthlyOffering)]>>

\* C20: wherever other code can run, the catalog cache is the empty cache of
\* a service that has completed no reload, or else the complete result of the
\* last completed reload, also while a reload is in flight; a fetch that
\* rejects leaves it as it was.
C20_StaleButConsistent ==
  /\ [](offersCache = CompleteResult(fetched))
  /\ [][\A t \in DOMAIN tasks :
          FetchRejectsNow(t) => offersCache' = offersCache]_vars

\* C20 witness: a reload is in flight after another was rejected, and the
\* cache still holds the two offers of the reload completed before them
C20_Witness ==
  /\ \E t \in DOMAIN tasks : AwaitsGetOfferings(tasks[t])
  /\ \E t \in DOMAIN tasks : tasks[t] = Idle("loadOfferings", "rejected")
  /\ Len(offersCache) = 2
  /\ offersCache = CompleteResult(fetched)

\* ------------------------------------------------- the singleton, as read
\* this step belongs to the setSubscriptionUserId call of slot t: the call
\* is made, or it resumes after the adapter's setUserId
UserIdCallSteps(t) ==
  /\ tasks'[t] # tasks[t]
  /\ tasks'[t].op = "setSubscriptionUserId"

\* ... and with this step the call completes, having found a different id
UserIdCallCompletes(t) ==
  /\ UserIdCallSteps(t)
  /\ tasks'[t].pc = "idle"
  /\ tasks'[t].outcome = "resolved"

\* C21: a setSubscriptionUserId call with an id other than the current one
\* leaves the catalog cache as it was at each of its steps and starts no
\* catalog fetch, and when it completes the snapshot is null, so that
\* hasLoadedCustomerInfo() is false.
C21_UserChangeClearsOnlySnapshot ==
  [][\A t \in DOMAIN tasks :
       /\ UserIdCallSteps(t)
            => UNCHANGED <<offersCache, fetched, isLoadingOfferings, requests>>
       /\ UserIdCallCompletes(t)
            => /\ currentSubscription' = NullSubscription
               /\ ~hasLoadedCustomerInfo(currentSubscription')
    ]_vars

\* C21 witness: a user change has completed on a service that holds a
\* catalog and had a snapshot of an active subscription, which is gone
C21_Witness ==
  /\ \E t \in DOMAIN tasks :
       /\ tasks[t].op = "setSubscriptionUserId"
       /\ tasks[t].pc = "idle"
       /\ tasks[t].outcome = "resolved"
  /\ hasLoadedOfferings(offersCache)
  /\ customerInfo.ok
  /\ customerInfo.active # <<>>
  /\ ~hasLoadedCustomerInfo(currentSubscription)

\* the listeners are invoked in this step
RoundNow == notified' # notified

\* every listener invoked in the last round saw this user id and no snapshot
AllSaw(round, userId) ==
  \A i \in DOMAIN round.invoked :
    /\ round.invoked[i].userId = userId
    /\ round.invoked[i].subscription = NullSubscription

\* C22, as stated: the user-id-change listeners are invoked only in the step
\* in which a setSubscriptionUserId call resumes after the adapter's
\* setUserId, the snapshot being cleared in that same step, and every listener
\* then observes the id that call was given and a null snapshot.
C22_ListenersSeeTheNewId ==
  [][/\ RoundNow =>
          \E t \in DOMAIN tasks :
             tasks[t].pc = "setUserId" /\ UserIdCallCompletes(t)
     /\ \A t \in DOMAIN tasks :
          UserIdCallCompletes(t) =>
             /\ currentSubscription' = NullSubscription
             /\ notified'.round = "userIdChange"
             /\ AllSaw(notified', tasks'[t].userId)
    ]_vars

\* C22, amended: the listeners are invoked only in the step in which a
\* setSubscriptionUserId call resumes after the adapter's setUserId, the
\* snapshot being cleared in that same step, and every listener then observes
\* a null snapshot and the id of the setSubscriptionUserId call that changed
\* the user id last, which is another call's id when that call was made during
\* the await.
C22_ListenersSeeTheLatestId ==
  [][/\ RoundNow =>
          \E t \in DOMAIN tasks :
             tasks[t].pc = "setUserId" /\ UserIdCallCompletes(t)
     /\ \A t \in DOMAIN tasks :
          UserIdCallCompletes(t) =>
             /\ currentSubscription' = NullSubscription
             /\ notified'.round = "userIdChange"
             /\ AllSaw(notified', currentUserId')
     /\ currentUserId' # currentUserId =>
          \E t \in DOMAIN tasks :
             /\ tasks[t].pc = "idle"
             /\ UserIdCallSteps(t)
             /\ tasks'[t].userId = currentUserId'
    ]_vars

\* C22 witness: a round has run for a call made with one id, over a snapshot
\* that had been loaded, and its listeners saw another id
C22_Witness ==
  /\ notified.round = "userIdChange"
  /\ notified.invoked # <<>>
  /\ customerInfo.ok
  /\ customerInfo.active # <<>>
  /\ currentSubscription = NullSubscription
  /\ \E t \in DOMAIN tasks :
       /\ tasks[t].op = "setSubscriptionUserId"
       /\ tasks[t].pc = "idle"
       /\ tasks[t].outcome = "resolved"
       /\ tasks[t].userId # notified.invoked[1].userId

\* the listeners invoked in a round, in the order of their invocation
ListenersOf(round) ==
  [i \in DOMAIN round.invoked |-> round.invoked[i].listener]

\* with this step the refreshSubscription call of slot t resolves, having
\* awaited its two loads
RefreshCompletes(t) ==
  /\ tasks[t].pc = "Promise.all"
  /\ tasks'[t].pc = "idle"
  /\ tasks'[t].outcome = "resolved"

\* this step completes a call that notifies
NotifyingStep ==
  \E t \in DOMAIN tasks : UserIdCallCompletes(t) \/ RefreshCompletes(t)

\* the array after the step is the one before it with a new listener at its
\* end, or with one listener taken out and the others in their order
Subscribes(before, after) ==
  \E l \in Listeners :
    /\ \A i \in DOMAIN before : before[i] # l
    /\ after = before \o <<l>>

Unsubscribes(before, after) ==
  \E i \in DOMAIN before :
    after = [j \in 1..(Len(before) - 1) |->
               IF j < i THEN before[j] ELSE before[j + 1]]

C24_UnsubscribeDuringRoundIsSafe ==
  [][\A t \in DOMAIN tasks :
       /\ UserIdCallCompletes(t) /\ notified'.unsubscribed # {}
            => /\ Len(notified'.invoked) = Len(userIdChangeListeners)
               /\ \A i \in DOMAIN userIdChangeListeners :
                    \E k \in DOMAIN notified'.invoked :
                       notified'.invoked[k].listener = userIdChangeListeners[i]
       /\ RefreshCompletes(t) /\ notified'.unsubscribed # {}
            => /\ Len(notified'.invoked) = Len(subscriptionRefreshListeners)
               /\ \A i \in DOMAIN subscriptionRefreshListeners :
                    \E k \in DOMAIN notified'.invoked :
                       notified'.invoked[k].listener =
                         subscriptionRefreshListeners[i]
    ]_vars

\* ------------------------------------- the service over the adapter, as read
\* this step is the settling of the getCustomerInfo request that call t awaits
CustomerInfoSettlesNow(t) ==
  tasks[t].pc = "getCustomerInfo" /\ tasks'[t].pc = "idle"

InactiveSnapshot == [isActive |-> FALSE, entitlements |-> <<>>]

Loads == {"loadOfferings", "loadCustomerInfo", "refreshSubscription"}

\* C25: when the provider's fetch fails during a catalog reload, the reload
\* completes normally with an empty catalog and the in-flight flag lowered,
\* and the level and upgrade queries on the empty catalog give empty answers;
\* when it fails during a customer-info reload, the reload completes normally
\* with an inactive snapshot without entitlements and the flag lowered; no
\* loadOfferings, loadCustomerInfo or refreshSubscription call ever rejects.
C25_FetchFailureIsNotPropagated ==
  /\ [](\A t \in DOMAIN tasks :
          tasks[t].op \in Loads => tasks[t].outcome # "rejected"
                                   /\ tasks[t].nested # "rejected")
  /\ [][\A t \in DOMAIN tasks :
          /\ FetchResolvesNow(t) /\ fetched'.caught
               => /\ tasks[t].pc = "getOfferings"
                     => tasks'[t] = Idle("loadOfferings", "resolved")
                  /\ offersCache' = EmptyCache
                  /\ ~isLoadingOfferings'
                  /\ \A tie \in TieOrders(Len(offersCache')) :
                       /\ calculatePackageLevels(<<>>, tie) = EmptyMap
                       /\ findUpgradeablePackages(NoCurrent, <<>>, tie) = <<>>
          /\ AwaitsGetOfferings(tasks[t]) /\ ~AwaitsGetOfferings(tasks'[t])
               => FetchResolvesNow(t)
          /\ CustomerInfoSettlesNow(t) /\ customerInfo'.caught
               => /\ tasks'[t] = Idle("loadCustomerInfo", "resolved")
                  /\ currentSubscription' = InactiveSnapshot
                  /\ ~isLoadingCustomerInfo'
          /\ CustomerInfoSettlesNow(t) => tasks'[t].outcome = "resolved"
     ]_vars

\* C25 witness: a catalog had been cached and a subscription was active when
\* the provider failed on both reloads: the cache is empty, the snapshot
\* inactive, no flag is raised and both calls have returned
C25_Witness ==
  /\ fetched.ok
  /\ fetched.caught
  /\ customerInfo.ok
  /\ customerInfo.caught
  /\ offersCache = EmptyCache
  /\ currentSubscription = InactiveSnapshot
  /\ ~isLoadingOfferings
  /\ ~isLoadingCustomerInfo
  /\ \E t \in DOMAIN tasks : tasks[t] = Idle("loadCustomerInfo", "resolved")

\* the package id is the identifier of no package of the provider's catalog
NotOnSale(packageId) == PackageToPurchase(ProviderCatalog, packageId) = {}

\* the purchase call t hears from the adapter in this step
PurchaseSettlesNow(t) ==
  tasks[t].pc = "purchase" /\ tasks'[t].pc # "purchase"

\* a purchase of a package that is not on sale rejects when the adapter
\* settles, with no reload started and the snapshot and the cache untouched
UnknownPackageRejects ==
  \A t \in TopLevel :
    PurchaseSettlesNow(t) /\ NotOnSale(tasks[t].packageId)
      => /\ \A outcome \in ProviderPurchaseOutcomes :
              ~WebPurchase([packageId |-> tasks[t].packageId], outcome).ok
         /\ tasks'[t].pc = "idle"
         /\ tasks'[t].outcome = "rejected"
         /\ \A u \in DOMAIN tasks : u # t => tasks'[u].pc = tasks[u].pc
         /\ UNCHANGED <<requests, isLoadingOfferings, isLoadingCustomerInfo,
                        currentSubscription, offersCache>>

\* the operations of the orchestration layer: the service's, and the
\* singleton's refresh of both resources
Orchestration ==
  {"loadOfferings", "loadCustomerInfo", "refreshSubscription", "purchase"}

NotInitialized == Throws("Subscription not initialized")

\* this step is a call of the synchronous function `name`
SyncCall(name) == called' = name /\ tasks' = tasks

\* this step is a refreshSubscription() called in slot t
RefreshCalledNow(t) ==
  /\ tasks[t].pc = "idle"
  /\ tasks'[t].op = "refreshSubscription"
  /\ tasks'[t] # tasks[t]

\* C27: the instance is the one made by the latest initializeSubscription,
\* and none before the first one and after a resetSubscription until the
\* next; getSubscriptionInstance() throws exactly when there is none and
\* otherwise returns it, changing nothing when it throws;
\* isSubscriptionInitialized() is true exactly when it would not throw;
\* refreshSubscription() on an uninitialized library resolves at once and
\* requests nothing.
C27_InstanceFollowsLifeCycle ==
  /\ [](created = 0 => instance = NullInstance)
  /\ [][/\ created' # created
             => created' = created + 1 /\ called' = "initializeSubscription"
        /\ called' = "initializeSubscription"
             => instance' = created' /\ instance' # NullInstance
        /\ called' = "resetSubscription" => instance' = NullInstance
        /\ called' \notin {"initializeSubscription", "resetSubscription"}
             => instance' = instance /\ created' = created
        /\ SyncCall("getSubscriptionInstance")
             => /\ (result' = NotInitialized) <=> (instance = NullInstance)
                /\ result' # NotInitialized => result' = Returns(created)
                /\ UNCHANGED <<service, library, packages, current, calls,
                               levels, upgrades, arg>>
        /\ SyncCall("isSubscriptionInitialized")
             => /\ result' \in {Returns(TRUE), Returns(FALSE)}
                /\ (result' = Returns(TRUE)) <=> (instance # NullInstance)
                /\ UNCHANGED <<service, library>>
        /\ \A t \in TopLevel :
             RefreshCalledNow(t) /\ instance = NullInstance
               => /\ tasks'[t] = Idle("refreshSubscription", "resolved")
                  /\ UNCHANGED <<requests, isLoadingOfferings,
                                 isLoadingCustomerInfo, offersCache,
                                 currentSubscription, notified>>
     ]_vars

\* C27 witness: after two initializeSubscription calls and a
\* resetSubscription, a refreshSubscription() has resolved and
\* getSubscriptionInstance() has thrown
C27_Witness ==
  /\ created = MaxInits
  /\ instance = NullInstance
  /\ called = "getSubscriptionInstance"
  /\ result = NotInitialized
  /\ \E t \in TopLevel : tasks[t] = Idle("refreshSubscription", "resolved")
  /\ requests = NoRequests

\* ------------------------------------------------- the snapshot, as read
\* where the cache holds a package of the product: <<offer, package>>
Selling(cache, productId) ==
  {at \in UNION {{<<i, j>> : j \in DOMAIN cache[i].offer.packages} :
                   i \in DOMAIN cache} :
     cache[at[1]].offer.packages[at[2]].product.productId = productId}

\* `a` comes before `b` when the offers are scanned in cache order and the
\* packages of each in list order
ScannedBefore(a, b) == a[1] < b[1] \/ (a[1] = b[1] /\ a[2] <= b[2])

\* `snapshot` is what the claim derives from the fetched data and the cache
DerivedFrom(snapshot, info, cache) ==
  IF info.active = <<>>
  THEN snapshot = InactiveSnapshot
  ELSE /\ snapshot.isActive
       /\ Len(snapshot.entitlements) = Len(info.active)
       /\ \A i \in DOMAIN info.active :
            snapshot.entitlements[i] = info.active[i].identifier
       /\ snapshot.productId = info.active[1].productIdentifier
       /\ LET selling == Selling(cache, snapshot.productId)
          IN IF selling = {}
             THEN /\ snapshot.packageId = UNDEFINED
                  /\ snapshot.period = UNDEFINED
             ELSE \E at \in selling :
                    /\ \A other \in selling : ScannedBefore(at, other)
                    /\ snapshot.packageId =
                         cache[at[1]].offer.packages[at[2]].packageId
                    /\ snapshot.period =
                         cache[at[1]].offer.packages[at[2]].product.period

\* C28: when a loadCustomerInfo call that fetched completes, the snapshot is
\* derived from the fetched data and the cached catalog: inactive, without
\* entitlements, when no entitlement is active; otherwise active, listing
\* all active entitlement ids, with the product of the first one and the
\* packageId and period of the first cached package of that product in
\* cache order, or undefined when there is none. And every non-null
\* snapshot is active exactly when it lists an entitlement, and has a
\* productId when active.
C28_SnapshotDerivedFromFetch ==
  /\ [][\A t \in DOMAIN tasks :
          CustomerInfoSettlesNow(t)
            => /\ tasks'[t] = Idle("loadCustomerInfo", "resolved")
               /\ DerivedFrom(currentSubscription', customerInfo', offersCache')
     ]_vars
  /\ [](currentSubscription # NullSubscription
          => /\ currentSubscription.isActive
                  <=> currentSubscription.entitlements # <<>>
             /\ currentSubscription.isActive
                  => /\ "productId" \in DOMAIN currentSubscription
                     /\ currentSubscription.productId # UNDEFINED)

\* C28 witness: the product of the first active entitlement is sold by a
\* package of the first cached offer and by one of the second; the snapshot
\* names the package of the first offer
C28_Witness ==
  /\ currentSubscription # NullSubscription
  /\ currentSubscription.isActive
  /\ customerInfo.ok
  /\ customerInfo.active # <<>>
  /\ currentSubscription.productId = customerInfo.active[1].productIdentifier
  /\ \E a, b \in Selling(offersCache, currentSubscription.productId) :
       /\ a[1] < b[1]
       /\ currentSubscription.packageId =
            offersCache[a[1]].offer.packages[a[2]].packageId
       /\ currentSubscription.packageId #
            offersCache[b[1]].offer.packages[b[2]].packageId

\* --------------------------------------- loaded and not yet loaded, as read
\* a catalog reload has completed on this service
ReloadCompleted == fetched.ok

\* this step is a loadCustomerInfo() called in slot t that did not return
\* at once
LoadCustomerInfoCalledNow(t) ==
  /\ tasks[t].pc = "idle"
  /\ tasks'[t].op = "loadCustomerInfo"
  /\ tasks'[t].pc # "idle"

\* C29: once a catalog reload has completed, hasLoadedOfferings() is true,
\* also when the fetched catalog holds no offer, and a loadCustomerInfo call,
\* which reloads the catalog only when hasLoadedOfferings() is false, does
\* not fetch the catalog again.
C29_LoadedButEmptyIsLoaded ==
  /\ [](ReloadCompleted => hasLoadedOfferings(offersCache))
  /\ [][\A t \in DOMAIN tasks :
          ReloadCompleted /\ LoadCustomerInfoCalledNow(t)
            => requests'.getOfferings = requests.getOfferings]_vars

\* ------------------------------------ the catalog before the snapshot, as read
\* the packages of the provider's catalog that sell the product
OnSale(productId) ==
  {pkg \in UNION {Range(ProviderCatalog.all[i].offering.availablePackages) :
                    i \in DOMAIN ProviderCatalog.all} :
     pkg.rcBillingProduct.identifier = productId}

\* the provider has not failed on the last catalog fetch that completed
CatalogNotLost == fetched.ok => ~fetched.caught

\* C30: whenever a loadCustomerInfo fetch yields an active entitlement whose
\* product is sold by a package of the provider's catalog, and the provider
\* did not fail on the catalog, the resulting snapshot carries the packageId
\* of such a package and its period: they are never left undefined because
\* the catalog had not arrived yet.
C30_CatalogBeforePackageId ==
  [][\A t \in DOMAIN tasks :
       /\ CustomerInfoSettlesNow(t)
       /\ customerInfo'.active # <<>>
       /\ OnSale(customerInfo'.active[1].productIdentifier) # {}
       /\ CatalogNotLost
       => /\ currentSubscription'.packageId \in
               {pkg.identifier :
                  pkg \in OnSale(customerInfo'.active[1].productIdentifier)}
          /\ currentSubscription'.period # UNDEFINED
    ]_vars

\* ------------------------------------------- fresh data on return, as read
\* this step is the return of the purchase call t to its caller, resolved
PurchaseResolvesNow(t) ==
  /\ tasks[t].op = "purchase"
  /\ tasks[t].pc = "loadCustomerInfo"
  /\ tasks'[t].pc = "idle"
  /\ tasks'[t].outcome = "resolved"

\* this step is the return of the refreshSubscription call t, resolved
RefreshResolvesNow(t) ==
  /\ tasks[t].pc = "Promise.all"
  /\ tasks'[t].pc = "idle"
  /\ tasks'[t].outcome = "resolved"

\* the call in the slot asked the adapter and installed what it answered
\* (it was not the no-op of a call made while another was in flight)
Fetched(task) == task.pc = "idle" /\ task.outcome = "resolved"

\* C31: when purchase resolves, the snapshot comes from customer info the
\* adapter returned after the purchase had completed, that is, the
\* loadCustomerInfo call purchase made then did fetch, whatever other
\* loadCustomerInfo calls were running; and when refreshSubscription
\* returns, both of its loads did fetch.
C31_FreshAfterPurchaseAndRefresh ==
  [][\A t \in TopLevel :
       /\ PurchaseResolvesNow(t) => Fetched(tasks[ChildSlot(t, 2)])
       /\ RefreshResolvesNow(t)
            => /\ Fetched(tasks[ChildSlot(t, 1)])
               /\ Fetched(tasks[ChildSlot(t, 2)])
    ]_vars

\* ------------------------------------------ users and their data, as read
\* no call is suspended on an await
Quiescent == \A t \in DOMAIN tasks : tasks[t].pc = "idle"

\* the library's user as the adapter names it: null for none
LibraryUser == IF currentUserId = UNDEFINED THEN NULL ELSE currentUserId

\* the adapter is set up for the library's current user
AdapterFollows ==
  /\ rcCurrentUserId = LibraryUser
  /\ LibraryUser # NULL => purchasesInstance = Configured(LibraryUser)

\* C32: once the user changes have completed, with the adapter set up for
\* the new user, and every reload has settled, the snapshot is null or was
\* derived from customer info the adapter returned for the new user: a
\* loadCustomerInfo started for the previous user never leaves that user's
\* data as the snapshot.
C32_NoSnapshotOfPreviousUser ==
  Quiescent /\ AdapterFollows /\ currentSubscription # NullSubscription
    => customerInfo.appUserId = LibraryUser

\* ------------------------------------------- refresh notifications, as read
\* the call in the slot has returned without rejecting
SettledWell(task) ==
  task.pc = "idle" /\ task.outcome \in {"resolved", "skipped"}

SettledBadly(task) == task.pc = "idle" /\ task.outcome = "rejected"

\* the refreshSubscription call t returns in this step
RefreshReturnsNow(t) ==
  tasks[t].pc = "Promise.all" /\ tasks'[t].pc = "idle"

\* the listeners invoked in a round, in order
InvokedIn(round) == [i \in DOMAIN round.invoked |-> round.invoked[i].listener]

\* C33: the refresh listeners are notified only in the step in which a
\* refreshSubscription call, both of whose loads have settled without
\* rejecting, resolves; a refreshSubscription one of whose loads rejected
\* rejects and notifies no one, one called while the library is
\* uninitialized notifies no one, and every listener refreshSubscription
\* invokes is a refresh listener: the user-id listeners are never invoked.
C33_RefreshNotifiesAfterBothLoads ==
  /\ [](notified.round \in {"none", "refresh"})
  /\ [][/\ notified' # notified
             => \E t \in TopLevel :
                  /\ RefreshReturnsNow(t)
                  /\ SettledWell(tasks[ChildSlot(t, 1)])
                  /\ SettledWell(tasks[ChildSlot(t, 2)])
                  /\ tasks'[t].outcome = "resolved"
                  /\ notified'.round = "refresh"
                  /\ \A i \in DOMAIN notified'.invoked :
                       indexOf(subscriptionRefreshListeners,
                               InvokedIn(notified')[i]) # 0
        /\ \A t \in TopLevel :
             /\ RefreshReturnsNow(t)
                /\ (SettledBadly(tasks[ChildSlot(t, 1)])
                    \/ SettledBadly(tasks[ChildSlot(t, 2)]))
                  => /\ tasks'[t].outcome = "rejected"
                     /\ UNCHANGED <<notified, subscriptionRefreshListeners,
                                    userIdChangeListeners>>
             /\ RefreshCalledNow(t)
                  => UNCHANGED <<notified, subscriptionRefreshListeners,
                                 userIdChangeListeners>>
             /\ RefreshReturnsNow(t) /\ tasks'[t].outcome = "resolved"
                /\ subscriptionRefreshListeners # <<>>
                  => notified'.round = "refresh" /\ notified'.invoked # <<>>
     ]_vars

\* C33 witness: with a user-id listener (1) and a refresh listener (2)
\* registered, a refresh whose two loads fetched has notified listener 2
\* alone and resolved
C33_Witness ==
  /\ userIdChangeListeners = <<1>>
  /\ notified.round = "refresh"
  /\ InvokedIn(notified) = <<2>>
  /\ fetched.ok
  /\ customerInfo.ok
  /\ \E t \in TopLevel : tasks[t] = Idle("refreshSubscription", "resolved")

\* ------------------------------------------------ useSubscriptions, as read
\* the ids under which the provider's catalog is cached when it arrives
OnOffer ==
  {ProviderCatalog.all[i].key : i \in DOMAIN ProviderCatalog.all}
    \cup (IF ProviderCatalog.current # NullOffering THEN {"default"} ELSE {})

\* the loadData call of the hook in slot t finishes in this step
LoadFinishesNow(t) ==
  /\ tasks'[t].op = "useSubscriptions.loadData"
  /\ tasks'[t].pc = "idle"
  /\ tasks'[t] # tasks[t]

\* C34: every load of a useSubscriptions(offerId) hook ends with isLoading
\* false, and when it ends without error and the provider has not failed on
\* the catalog, its offer is null only if the provider's catalog has no
\* offer of that id, whatever other hooks and loadCustomerInfo calls run.
C34_OfferNullOnlyIfNotFound ==
  [][\A t \in TopLevel :
       LoadFinishesNow(t)
         => /\ ~tasks'[t].isLoading
            /\ ( (/\ ~tasks'[t].error
                  /\ tasks'[t].offer = NullOffer
                  /\ (fetched'.ok => ~fetched'.caught))
                 => tasks'[t].offerId \notin OnOffer )
    ]_vars

\* --------------------------------------------- the same user id, once more
\* a setSubscriptionUserId call is made in slot t in this step, with the id
\* the library holds
SameUserCalledNow(t) ==
  /\ tasks[t].pc = "idle"
  /\ tasks'[t] # tasks[t]
  /\ tasks'[t].op = "setSubscriptionUserId"
  /\ tasks'[t].userId = currentUserId

\* C35: setSubscriptionUserId(u) with u the library's current user id,
\* undefined included, changes nothing: the call returns without awaiting
\* the adapter's setUserId, the user id, the snapshot and the catalog stay
\* as they are, and no listener is invoked.
C35_SameUserChangesNothing ==
  [][\A t \in TopLevel :
       SameUserCalledNow(t)
         => /\ tasks'[t].pc = "idle"
            /\ UNCHANGED <<currentUserId, currentSubscription, offersCache,
                           customerInfo, fetched, requests, notified,
                           userIdChangeListeners>>
    ]_vars

\* a call with the current id has returned while a snapshot is held and a
\* listener is registered
C35_Witness ==
  \E t \in TopLevel :
    /\ tasks[t].op = "setSubscriptionUserId"
    /\ tasks[t].pc = "idle"
    /\ tasks[t].outcome = "skipped"
    /\ tasks[t].userId = currentUserId
    /\ currentUserId # UNDEFINED
    /\ currentSubscription # NullSubscription
    /\ userIdChangeListeners # <<>>

\* ------------------------------------------------- one set-up per user id
\* the slots in which a set-up of the SDK is in flight
SettingUp == {t \in DOMAIN tasks : tasks[t].pc \in {"import", "setAttributes"}}

\* C36: under every interleaving of setRevenueCatUser calls at most one
\* set-up per user id is in flight, and pendingUserSetup is null exactly
\* when no set-up is in flight.
C36_OneSetUpPerUser ==
  /\ \A t \in SettingUp : \A u \in SettingUp :
       t # u => tasks[t].userId # tasks[u].userId
  /\ (pendingUserSetup = NULL) <=> (SettingUp = {})

\* ------------------------------------------------- the last request wins
\* C37: once every setSubscriptionUserId call has settled, whatever their
\* overlap, the user the web adapter is configured for is the library's
\* current user id, and the adapter has no user when that id is undefined.
C37_LastUserRequestWins == Quiescent => AdapterFollows

\* -------------------------------------------------- a failed user change
\* the setSubscriptionUserId call in slot t rejects in this step, no other
\* user change being in flight
UserChangeRejectsNow(t) ==
  /\ tasks[t].pc = "setUserId"
  /\ tasks'[t].pc = "idle"
  /\ tasks'[t].op = "setSubscriptionUserId"
  /\ tasks'[t].outcome = "rejected"
  /\ \A u \in TopLevel \ {t} : tasks[u].pc # "setUserId"

\* setSubscriptionUserId(userId) is called again in slot t in this step, the
\* last call that returned being a rejected change to the same id and no
\* other call being in flight
RetriedNow(t, userId) ==
  /\ Quiescent
  /\ \E u \in TopLevel :
       /\ tasks[u].op = "setSubscriptionUserId"
       /\ tasks[u].outcome = "rejected"
       /\ tasks[u].userId = userId
  /\ tasks'[t].op = "setSubscriptionUserId"
  /\ tasks'[t].userId = userId
  /\ tasks'[t] # tasks[t]

\* C38: when the adapter's setUserId rejects, getSubscriptionUserId() is not
\* left at the id of the failed change, and a later setSubscriptionUserId
\* with that id calls the adapter again instead of being skipped.
C38_FailedChangeLeavesPreviousUser ==
  [][\A t \in TopLevel :
       /\ UserChangeRejectsNow(t) => currentUserId' # tasks[t].userId
       /\ \A userId \in UserIds :
            RetriedNow(t, userId) => tasks'[t].pc = "setUserId"
    ]_vars

\* ------------------------------------------------- no guard stays raised
\* the loadOfferings call whose fetch is awaited in slot t, made by the
\* caller or by loadCustomerInfo, settles in this step
OfferingsLoadSettlesNow(t) ==
  \/ tasks[t].pc = "getOfferings" /\ tasks'[t].pc = "idle"
  \/ /\ tasks[t].pc = "loadOfferings" /\ tasks[t].nested = "getOfferings"
     /\ tasks'[t].nested # "getOfferings"

\* the loadCustomerInfo call in slot t, having raised its flag, settles in
\* this step
CustomerInfoLoadSettlesNow(t) ==
  /\ tasks[t].pc \in {"loadOfferings", "getCustomerInfo"}
  /\ tasks'[t].pc = "idle"

\* a reload is called in slot t in this step, none being pending
ReloadCalledNow(t) ==
  /\ Quiescent
  /\ tasks'[t] # tasks[t]
  /\ tasks'[t].op \in {"loadOfferings", "loadCustomerInfo"}

\* the calls the adapter has not answered
InFlight(reqs) == reqs.getOfferings + reqs.getCustomerInfo

\* C39: a loadOfferings or loadCustomerInfo call that started a fetch leaves
\* its in-flight flag false when it settles, normally or by rejection, the
\* loadOfferings inside loadCustomerInfo included; so whenever no reload is
\* pending both flags are false, and the next reload of either resource
\* invokes the adapter.
C39_NoGuardStaysRaised ==
  /\ [](Quiescent => ~isLoadingOfferings /\ ~isLoadingCustomerInfo)
  /\ [][\A t \in 1..MaxTasks :
          /\ OfferingsLoadSettlesNow(t) => ~isLoadingOfferings'
          /\ CustomerInfoLoadSettlesNow(t) => ~isLoadingCustomerInfo'
          /\ ReloadCalledNow(t)
               => /\ tasks'[t].pc # "idle"
                  /\ InFlight(requests') = InFlight(requests) + 1
       ]_vars

\* a loadCustomerInfo call has settled by rejection of the loadOfferings it
\* made, and nothing is pending
C39_Witness ==
  /\ Quiescent
  /\ \E t \in 1..MaxTasks :
       /\ tasks[t].op = "loadCustomerInfo"
       /\ tasks[t].outcome = "rejected"
  /\ offersCache = EmptyCache
  /\ ~isLoadingOfferings
  /\ ~isLoadingCustomerInfo

\* ------------------------------------------- the snapshot and the catalog
\* the packages of the cached catalog
CachedPackages ==
  UNION {{offersCache[i].offer.packages[j] :
            j \in DOMAIN offersCache[i].offer.packages} :
         i \in DOMAIN offersCache}

\* the snapshot names a package
CarriesPackageId ==
  /\ currentSubscription # NullSubscription
  /\ currentSubscription.isActive
  /\ currentSubscription.packageId # UNDEFINED

\* C40: in every state in which no reload is in flight, a snapshot that
\* carries a packageId names a package of the cached catalog, whose product
\* id and period are the snapshot's, also after later reloads of the catalog
\* that change the offers.
C40_SnapshotNamesCachedPackage ==
  Quiescent /\ CarriesPackageId
    => \E pkg \in CachedPackages :
         /\ pkg.packageId = currentSubscription.packageId
         /\ pkg.product.productId = currentSubscription.productId
         /\ pkg.product.period = currentSubscription.period

====
